---- MODULE Spec2Model ----
(***************************************************************************)
(* Plant identification assistant: the AI client's reply normalization     *)
(* (public/scripts/ai-service.js), the identifyPlant request, and the      *)
(* local-storage history store (public/scripts/history.js).                *)
(*                                                                         *)
(* JavaScript values are tagged records [t, v].  A string is a sequence    *)
(* of symbols: a word, or one blank; no symbol occurs inside another, so   *)
(* that one string contains another exactly when its symbols do.  Text     *)
(* the program never searches is kept as one symbol.  An object is a       *)
(* function from property names to values; a property that is absent       *)
(* reads as undefined.                                                     *)
(***************************************************************************)
EXTENDS Integers, Sequences, FiniteSets, TLC

VARIABLES
    reply,        \* the argument handed to validateAndEnhanceResponse
    enhanced,     \* what validateAndEnhanceResponse returned for it
    storage,      \* localStorage: the text under 'plantid-history', or NoItem
    gridShown,    \* #historyGrid is displayed (and #emptyHistory is not)
    gridItems,    \* the items whose elements are the children of #historyGrid
    searchInput,  \* the value of the #searchHistory input
    exported,     \* the text of the last downloaded export, or NoItem
    notice,       \* the last notification shown, or NoNotice
    saved,        \* what the last saveToHistory call returned, or NoCall
    clock,        \* the last reading of the system clock, in milliseconds
    log,          \* history variable: the items stored by successful saves, in order
    removals,     \* history variable: the confirmed deleteItem and clear calls so far
    aiPc,         \* where the identifyPlant call stands
    aiFile,       \* the imageFile it was called with
    aiBase64,     \* base64Image, once the file is read
    aiTimer,      \* the timeout timer: "unset", "armed", "cleared" or "fired"
    aiResponse,   \* the response whose headers arrived
    aiData,       \* data, what response.json() resolved to
    aiResult,     \* the envelope the call resolved to, or NotRun
    aiCause,      \* history variable: the way the call ended
    mediaDevices, \* whether navigator.mediaDevices.getUserMedia exists
    videoElement, \* whether CameraService.videoElement is set
    stream,       \* CameraService.stream: a stream, or NoStream for null
    isActive,     \* CameraService.isActive
    facingMode,   \* constraints.video.facingMode.ideal
    srcObject,    \* videoElement.srcObject
    cameraShown,  \* whether the camera container is displayed
    live,         \* the acquired streams whose tracks are not stopped
    acquired,     \* the number of streams the platform has handed out
    requests,     \* the getUserMedia requests still pending
    captures,     \* the toBlob callbacks still pending
    camPc,        \* "handed" inside a toBlob callback, between its two calls
    camReturned,  \* what the last finished camera call returned
    released,     \* history variable: no startCamera call since the last stop
    currentImageFile,        \* PlantIdentificationApp.currentImageFile
    windowCurrentImageFile,  \* window.currentImageFile
    isIdentifying,           \* PlantIdentificationApp.isIdentifying
    uploadShown,  \* whether the upload area is displayed
    previewShown, \* whether the preview area is displayed
    loadingShown, \* whether the loading container is displayed
    resultsShown, \* whether the results area is displayed
    tabs          \* the saves and deletes other tabs have under way on the key

normVars == <<reply, enhanced>>
histVars == <<storage, gridShown, gridItems, searchInput, exported, notice, saved,
              clock, log, removals>>
aiVars == <<aiPc, aiFile, aiBase64, aiTimer, aiResponse, aiData, aiResult, aiCause>>
camVars == <<mediaDevices, videoElement, stream, isActive, facingMode, srcObject,
             cameraShown, live, acquired, requests, captures, camPc, camReturned,
             released>>
appVars == <<currentImageFile, windowCurrentImageFile, isIdentifying>>
uiVars == <<uploadShown, previewShown>>
panelVars == <<loadingShown, resultsShown>>
vars == <<reply, enhanced, storage, gridShown, gridItems, searchInput, exported,
          notice, saved, clock, log, removals, aiPc, aiFile, aiBase64, aiTimer,
          aiResponse, aiData, aiResult, aiCause, mediaDevices, videoElement, stream,
          isActive, facingMode, srcObject, cameraShown, live, acquired, requests,
          captures, camPc, camReturned, released, currentImageFile,
          windowCurrentImageFile, isIdentifying, uploadShown, previewShown, loadingShown,
          resultsShown, tabs>>

(***************************************************************************)
(* JavaScript values                                                       *)
(***************************************************************************)
JNull == [t |-> "null", v |-> 0]
JUndefined == [t |-> "undefined", v |-> 0]
JNaN == [t |-> "nan", v |-> 0]
JNum(n) == [t |-> "num", v |-> n]
JBool(b) == [t |-> "bool", v |-> b]
JStr(s) == [t |-> "str", v |-> s]
JArr(s) == [t |-> "arr", v |-> s]
JObj(f) == [t |-> "obj", v |-> f]
Str(sym) == JStr(<<sym>>)
\* the words ws with one blank between neighbours
Words(ws) ==
    JStr([i \in 1..(2 * Len(ws) - 1) |-> IF i % 2 = 1 THEN ws[(i + 1) \div 2] ELSE " "])
NoProps == [k \in {} |-> JUndefined]

\* Own enumerable properties, as object spread and Object.keys see them:
\* an object's properties, an array's or a string's elements under their
\* indices "0", "1", ...; a number or a boolean has none.
OwnProps(x) ==
    CASE x.t = "obj" -> x.v
      [] x.t = "arr" ->
            [k \in {ToString(i - 1) : i \in 1..Len(x.v)} |->
                x.v[CHOOSE i \in 1..Len(x.v) : ToString(i - 1) = k]]
      [] x.t = "str" ->
            [k \in {ToString(i - 1) : i \in 1..Len(x.v)} |->
                JStr(<<x.v[CHOOSE i \in 1..Len(x.v) : ToString(i - 1) = k]>>)]
      [] OTHER -> NoProps

\* x[k], undefined when x has no such property
Prop(x, k) == IF k \in DOMAIN OwnProps(x) THEN OwnProps(x)[k] ELSE JUndefined

\* { ...a, ...b } on two property maps
Spread(a, b) ==
    [k \in DOMAIN a \cup DOMAIN b |-> IF k \in DOMAIN b THEN b[k] ELSE a[k]]

\* truthiness, as || tests it
Truthy(x) ==
    CASE x.t \in {"null", "undefined", "nan"} -> FALSE
      [] x.t = "num" -> x.v # 0
      [] x.t = "bool" -> x.v
      [] x.t = "str" -> x.v # <<>>
      [] OTHER -> TRUE

\* the symbols that read as decimal numerals
NumeralValue == ("0" :> 0) @@ ("75" :> 75) @@ ("85" :> 85) @@ ("150" :> 150)

StringToNumber(s) ==
    IF s = <<>> THEN JNum(0)
    ELSE IF Len(s) = 1 /\ s[1] \in DOMAIN NumeralValue THEN JNum(NumeralValue[s[1]])
    ELSE JNaN

\* ToNumber, the coercion Math.min and Math.max apply to an argument
ToNumber(x) ==
    CASE x.t = "num" -> x
      [] x.t = "null" -> JNum(0)
      [] x.t = "bool" -> JNum(IF x.v THEN 1 ELSE 0)
      [] x.t = "str" -> StringToNumber(x.v)
      [] x.t = "arr" ->
            IF x.v = <<>> THEN JNum(0)
            ELSE IF Len(x.v) = 1 /\ x.v[1].t = "str" THEN StringToNumber(x.v[1].v)
            ELSE IF Len(x.v) = 1 /\ x.v[1].t = "num" THEN x.v[1]
            ELSE JNaN
      [] OTHER -> JNaN

MathMin(a, b) ==
    IF ToNumber(a).t = "nan" \/ ToNumber(b).t = "nan" THEN JNaN
    ELSE IF ToNumber(a).v <= ToNumber(b).v THEN ToNumber(a) ELSE ToNumber(b)

MathMax(a, b) ==
    IF ToNumber(a).t = "nan" \/ ToNumber(b).t = "nan" THEN JNaN
    ELSE IF ToNumber(a).v >= ToNumber(b).v THEN ToNumber(a) ELSE ToNumber(b)

(***************************************************************************)
(* AIService.validateAndEnhanceResponse                                    *)
(***************************************************************************)
defaults ==
    [ plantName |-> Words(<<"Unknown", "Plant">>),
      scientificName |-> Words(<<"Species", "unknown">>),
      family |-> Words(<<"Family", "unknown">>),
      confidence |-> JNum(50),
      description |-> Words(<<"Plant", "identification", "completed", "with",
                              "available", "information.">>),
      careInstructions |-> JObj(
        [ light |-> Str("Bright, indirect light"),
          water |-> Str("Water when top soil feels dry"),
          soil |-> Str("Well-draining potting mix"),
          temperature |-> Str("65-75F (18-24C)"),
          humidity |-> Str("Moderate humidity 40-60%"),
          fertilizer |-> Str("Monthly liquid fertilizer during growing season"),
          propagation |-> Str("Methods vary by species"),
          commonIssues |-> Str("Monitor for pests, diseases, and environmental stress") ]),
      characteristics |-> JObj(
        [ size |-> Str("Size varies by species and growing conditions"),
          growth |-> Str("Moderate growth rate"),
          blooming |-> Str("Flowering depends on species and care"),
          toxicity |-> Str("Verify toxicity before handling - assume potentially harmful"),
          difficulty |-> Str("Intermediate care level") ]),
      seasonalCare |-> JObj(
        [ spring |-> Str("Increase watering frequency and begin fertilizing"),
          summer |-> Str("Maintain consistent moisture and protect from extreme heat"),
          fall |-> Str("Reduce fertilizing and gradually decrease watering"),
          winter |-> Str("Minimal watering and maintain stable temperatures") ]),
      tips |-> JArr(<<
          Str("Observe plant regularly for signs of health or stress"),
          Str("Adjust watering based on seasonal changes and plant response"),
          Str("Research specific species needs for optimal care") >>) ]

\* the keys of data the forEach body acts on: data[key] neither null nor undefined
GivenKeys(data) ==
    {key \in DOMAIN OwnProps(data) : OwnProps(data)[key].t \notin {"null", "undefined"}}

\* a merge that lets every given value replace the default wholesale
MergedValueShallow(data, key) == Prop(data, key)

\* the value the forEach body stores under key
MergedValue(data, key) ==
    IF Prop(data, key).t = "obj"
    THEN JObj(Spread(
            IF key \in DOMAIN defaults THEN OwnProps(defaults[key]) ELSE NoProps,
            Prop(data, key).v))
    ELSE Prop(data, key)

\* enhanced after "Deep merge with defaults"
DeepMerge(data) ==
    [key \in DOMAIN defaults \cup GivenKeys(data) |->
        IF key \in GivenKeys(data) THEN MergedValue(data, key) ELSE defaults[key]]

\* Math.max(0, Math.min(100, c || 50))
ClampConfidence(c) ==
    MathMax(JNum(0), MathMin(JNum(100), IF Truthy(c) THEN c ELSE JNum(50)))

\* Object.keys(data) throws a TypeError on null and undefined
NormalizeThrows(data) == data.t \in {"null", "undefined"}

validateAndEnhanceResponse(data) ==
    JObj([DeepMerge(data) EXCEPT !["confidence"] = ClampConfidence(@)])

(***************************************************************************)
(* JSON.stringify and JSON.parse.  A JSON text is the tree of the values   *)
(* it denotes plus its indentation: stringify keeps what JSON can carry    *)
(* (NaN becomes null, an undefined property is left out, an undefined      *)
(* array element becomes null) and parse reads the tree back, whatever     *)
(* the indentation.                                                        *)
(***************************************************************************)
RECURSIVE Serializable(_)
Serializable(x) ==
    CASE x.t \in {"nan", "undefined"} -> JNull
      [] x.t = "arr" -> JArr([i \in 1..Len(x.v) |-> Serializable(x.v[i])])
      [] x.t = "obj" ->
            JObj([k \in {j \in DOMAIN x.v : x.v[j].t # "undefined"} |->
                    Serializable(x.v[k])])
      [] OTHER -> x

JSONstringify(x, indent) == [text |-> Serializable(x), indent |-> indent]

JSONparse(s) == s.text

(***************************************************************************)
(* String methods                                                          *)
(***************************************************************************)
Blank == " "

LowerCase ==
    ("Aloe" :> "aloe") @@ ("ALOE" :> "aloe") @@ ("Vera" :> "vera") @@
    ("Monstera" :> "monstera") @@ ("Asphodelaceae" :> "asphodelaceae") @@
    ("Araceae" :> "araceae") @@ ("ARACEAE" :> "araceae") @@ ("Succulent" :> "succulent") @@
    ("Climber" :> "climber") @@ ("Unknown" :> "unknown") @@ ("Plant" :> "plant") @@
    ("Species" :> "species") @@ ("Family" :> "family")

\* String.prototype.toLowerCase
toLowerCase(s) ==
    [i \in 1..Len(s) |-> IF s[i] \in DOMAIN LowerCase THEN LowerCase[s[i]] ELSE s[i]]

\* String.prototype.includes
includes(s, part) ==
    \E i \in 0..(Len(s) - Len(part)) : SubSeq(s, i + 1, i + Len(part)) = part

\* String.prototype.trim
RECURSIVE trim(_)
trim(s) ==
    IF s = <<>> THEN s
    ELSE IF Head(s) = Blank THEN trim(Tail(s))
    ELSE IF s[Len(s)] = Blank THEN trim(SubSeq(s, 1, Len(s) - 1))
    ELSE s

(***************************************************************************)
(* HistoryService                                                          *)
(***************************************************************************)
maxHistoryItems == 100

NoItem == [text |-> JNull, indent |-> -1]
NoNotice == [message |-> "", type |-> "none"]
NoCall == "none"

\* Date.now().toString(36) + Math.random().toString(36).substr(2), for the clock
\* reading now and the draw random
generateId(now, random) == JStr(<<ToString(now), ToString(random)>>)

\* an id no item was given
AbsentId == Str("none")

\* new Date().toISOString()
toISOString(now) == JStr(<<ToString(now)>>)

\* getHistory() on a storage holding stored: the parsed text, [] when the key
\* holds nothing
HistoryOf(stored) == IF stored = NoItem THEN <<>> ELSE JSONparse(stored).v

getHistory == HistoryOf(storage)

\* the tabs that have the page open, and a tab with no handler under way
TabIds == {1, 2}
IdleTab == [pc |-> "idle", history |-> <<>>, arg |-> JNull, grid |-> <<>>, notice |-> "none"]

\* the historyItem saveToHistory builds from result
historyItem(result, now, random) ==
    JObj([ id |-> generateId(now, random),
           timestamp |-> toISOString(now),
           plantName |-> Prop(Prop(result, "data"), "plantName"),
           scientificName |-> Prop(Prop(result, "data"), "scientificName"),
           family |-> Prop(Prop(result, "data"), "family"),
           confidence |-> Prop(Prop(result, "data"), "confidence"),
           description |-> Prop(Prop(result, "data"), "description"),
           imageData |-> Prop(result, "imageData"),
           careInstructions |-> Prop(Prop(result, "data"), "careInstructions"),
           characteristics |-> Prop(Prop(result, "data"), "characteristics"),
           seasonalCare |-> Prop(Prop(result, "data"), "seasonalCare"),
           tips |-> Prop(Prop(result, "data"), "tips") ])

\* history.push(item): the item added at the end
push(history, item) == Append(history, item)

\* history.unshift(historyItem)
unshift(history, item) == <<item>> \o history

\* a history that is never cut
LimitSizeNever(history) == history

\* if (history.length > this.maxHistoryItems) history.splice(this.maxHistoryItems)
LimitSize(history) ==
    IF Len(history) > maxHistoryItems THEN SubSeq(history, 1, maxHistoryItems)
    ELSE history

\* displayHistory(items): an empty list hides the grid and leaves its children
\* as they were; any other list becomes the grid's children
displayHistory(items) ==
    IF Len(items) = 0
    THEN /\ gridShown' = FALSE
         /\ UNCHANGED gridItems
    ELSE /\ gridShown' = TRUE
         /\ gridItems' = items

showNotification(message, type) == notice' = [message |-> message, type |-> type]

\* the list the history section shows
Displayed == IF gridShown THEN gridItems ELSE <<>>

\* a save that reports success whatever the write did
SaveReturnsTrue(writeOk) == "true"

\* what saveToHistory returns: true at the end of the try, false from the catch
SaveReturns(writeOk) == IF writeOk THEN "true" ELSE "false"

\* saveToHistory(result), reading the clock as now and drawing random; writeOk is
\* whether localStorage.setItem takes the longer text (it throws when the quota
\* is exceeded)
saveToHistory(result, now, random, writeOk) ==
    LET history == LimitSize(unshift(getHistory, historyItem(result, now, random)))
    IN  /\ clock' = now
        /\ saved' = SaveReturns(writeOk)
        /\ IF writeOk
           THEN /\ storage' = JSONstringify(JArr(history), 0)
                /\ displayHistory(HistoryOf(storage'))
                /\ log' = Append(log, Serializable(historyItem(result, now, random)))
           ELSE UNCHANGED <<storage, gridShown, gridItems, log>>
        /\ UNCHANGED <<searchInput, exported, removals>>

\* item => item.id !== itemId
KeepsItem(item, itemId) == Prop(item, "id") # itemId

\* deleteItem(itemId); confirmed is the answer to the confirm dialog.  The text
\* written is no longer than the one read, so setItem takes it.
deleteItem(itemId, confirmed) ==
    /\ IF confirmed
       THEN /\ storage' = JSONstringify(
                    JArr(SelectSeq(getHistory, LAMBDA item : KeepsItem(item, itemId))), 0)
            /\ displayHistory(HistoryOf(storage'))
            /\ showNotification("Plant identification deleted", "success")
            /\ removals' = removals + 1
       ELSE UNCHANGED <<storage, gridShown, gridItems, notice, removals>>
    /\ UNCHANGED <<searchInput, exported, saved, clock, log>>

\* confirmClearHistory(); confirmed is the answer to the confirm dialog
confirmClearHistory(confirmed) ==
    /\ IF confirmed
       THEN /\ storage' = NoItem
            /\ displayHistory(HistoryOf(storage'))
            /\ showNotification("History cleared successfully", "success")
            /\ searchInput' = <<>>
            /\ removals' = removals + 1
       ELSE UNCHANGED <<storage, gridShown, gridItems, notice, searchInput, removals>>
    /\ UNCHANGED <<exported, saved, clock, log>>

\* the four fields filterHistory reads, in the order it reads them
SearchedFields == <<"plantName", "scientificName", "family", "description">>

\* the filter callback on item: "yes", "no", or "throw" when it reaches a field
\* that is no string (toLowerCase is then no function) before one that matches
RECURSIVE MatchFrom(_, _, _)
MatchFrom(item, term, n) ==
    IF n > Len(SearchedFields) THEN "no"
    ELSE IF Prop(item, SearchedFields[n]).t # "str" THEN "throw"
    ELSE IF includes(toLowerCase(Prop(item, SearchedFields[n]).v), term) THEN "yes"
    ELSE MatchFrom(item, term, n + 1)

\* a match on the term as typed, its case kept
MatchesAsTyped(item, searchTerm) == MatchFrom(item, searchTerm, 1)

Matches(item, searchTerm) == MatchFrom(item, toLowerCase(searchTerm), 1)

FilterThrows(history, searchTerm) ==
    \E i \in 1..Len(history) : Matches(history[i], searchTerm) = "throw"

\* filterHistory(searchTerm), called by the input listener of #searchHistory with
\* the input's value.  A TypeError in the filter callback leaves the listener
\* before anything is displayed.
filterHistory(searchTerm) ==
    /\ searchInput' = searchTerm
    /\ IF trim(searchTerm) = <<>>
       THEN displayHistory(getHistory)
       ELSE IF FilterThrows(getHistory, searchTerm)
       THEN UNCHANGED <<gridShown, gridItems>>
       ELSE displayHistory(
                SelectSeq(getHistory, LAMBDA item : Matches(item, searchTerm) = "yes"))
    /\ UNCHANGED <<storage, exported, notice, saved, clock, log, removals>>

\* an export of the items on display instead of the stored ones
exportHistoryShown ==
    /\ IF Len(getHistory) = 0
       THEN /\ showNotification("No history to export", "error")
            /\ UNCHANGED exported
       ELSE /\ exported' = JSONstringify(JArr(Displayed), 2)
            /\ showNotification("History exported successfully", "success")
    /\ UNCHANGED <<storage, gridShown, gridItems, searchInput, saved, clock, log, removals>>

\* exportHistory(): the download holds JSON.stringify(history, null, 2)
exportHistory ==
    /\ IF Len(getHistory) = 0
       THEN /\ showNotification("No history to export", "error")
            /\ UNCHANGED exported
       ELSE /\ exported' = JSONstringify(JArr(getHistory), 2)
            /\ showNotification("History exported successfully", "success")
    /\ UNCHANGED <<storage, gridShown, gridItems, searchInput, saved, clock, log, removals>>

\* item.family of the items of history, in the order of the list
Families(history) == [i \in DOMAIN history |-> Prop(history[i], "family")]

\* familyCounts after the forEach: the number of items of each family
familyCounts(history) ==
    [f \in {Families(history)[i] : i \in DOMAIN history} |->
        Cardinality({i \in DOMAIN history : Families(history)[i] = f})]

\* Object.keys(familyCounts): the families in the order the forEach inserted
\* them, that of their first item in the list (the names are not numerals)
FamilyKeys(history) ==
    LET fam == Families(history)
        firsts == {i \in DOMAIN history : \A j \in 1..(i - 1) : fam[j] # fam[i]}
    IN  [k \in 1..Cardinality(firsts) |->
            fam[CHOOSE i \in firsts : Cardinality({j \in firsts : j < i}) = k - 1]]

\* (a, b) => familyCounts[a] > familyCounts[b] ? a : b
LargerFamily(counts, a, b) == IF counts[a] > counts[b] THEN a ELSE b

\* keys.reduce(callback) with no initial value: the first key is the first
\* accumulator
RECURSIVE ReduceFamilies(_, _, _)
ReduceFamilies(counts, a, keys) ==
    IF keys = <<>> THEN a
    ELSE ReduceFamilies(counts, LargerFamily(counts, a, Head(keys)), Tail(keys))

\* getHistoryStats().mostCommonFamily on a store holding history
mostCommonFamilyOf(history) ==
    IF Len(history) = 0 THEN Str("None")
    ELSE ReduceFamilies(familyCounts(history), Head(FamilyKeys(history)),
                        Tail(FamilyKeys(history)))

mostCommonFamily == mostCommonFamilyOf(getHistory)

(***************************************************************************)
(* Replies handed to normalization                                         *)
(***************************************************************************)
MaxReplyKeys == 2

ReplyKeys == DOMAIN defaults \cup {"notes"}

ReplyValues ==
    { JNull, JNum(-5), JNum(0), JNum(75), JNum(150),
      Words(<<"Aloe", "vera">>), Str("75"), Str("high"),
      JArr(<<Str("Water weekly")>>),
      JObj([light |-> Str("Full sun")]),
      JObj([light |-> JNull, spring |-> Str("Repot")]) }

\* JSON.parse may also return a value that is no object
NonObjectReplies == {JNull, JNum(42), Words(<<"Aloe", "vera">>), JArr(<<Words(<<"Aloe", "vera">>)>>)}

Replies ==
    {JObj(f) : f \in UNION {[K -> ReplyValues] :
                    K \in {S \in SUBSET ReplyKeys : Cardinality(S) <= MaxReplyKeys}}}
    \cup NonObjectReplies

NotRun == [t |-> "notrun", v |-> 0]
NoFile == [type |-> "", content |-> "", size |-> 0]
NoStream == 0
NoResponse == [status |-> 0, statusText |-> ""]
Thrown == [t |-> "throw", v |-> 0]

\* plantData = this.validateAndEnhanceResponse(plantData)
Normalize ==
    /\ enhanced = NotRun
    /\ enhanced' = IF NormalizeThrows(reply) THEN Thrown
                   ELSE validateAndEnhanceResponse(reply)
    /\ UNCHANGED reply
    /\ UNCHANGED <<histVars, aiVars, camVars, appVars, uiVars, panelVars, tabs>>

(***************************************************************************)
(* Identifications handed to the history store                             *)
(***************************************************************************)
AloeReply ==
    JObj([ plantName |-> Words(<<"Aloe", "Vera">>),
           scientificName |-> Words(<<"Aloe", "barbadensis">>),
           family |-> Str("Asphodelaceae"),
           confidence |-> JNum(92),
           description |-> Words(<<"Succulent", "with", "fleshy", "leaves">>) ])

MonsteraReply ==
    JObj([ plantName |-> Str("Monstera"),
           scientificName |-> Str("Monstera"),
           family |-> Str("Araceae"),
           confidence |-> JNum(0),
           description |-> Str("Climber") ])

\* a reply whose plantName is a number
NumberedReply ==
    JObj([ plantName |-> JNum(42),
           family |-> Str("Araceae"),
           confidence |-> Str("high") ])

\* the envelope identifyPlant returns on success
SuccessEnvelope(plantData, now, imageData) ==
    JObj([ success |-> JBool(TRUE),
           data |-> plantData,
           timestamp |-> toISOString(now),
           imageData |-> imageData ])

JpegData == Str("data:image/jpeg;base64,/9j/4AAQ")

Identified(r) == SuccessEnvelope(validateAndEnhanceResponse(r), 0, JpegData)

Results == {Identified(AloeReply), Identified(MonsteraReply), Identified(NumberedReply)}

SearchTerms == {<<>>, <<Blank>>, <<"aloe">>, <<"ARACEAE">>, <<"Aloe", Blank, "vera">>, <<"fern">>}

RandomDraws == {0, 1}

(***************************************************************************)
(* Reply text.  The text of a reply is a sequence of pieces: an opening    *)
(* brace, a closing brace, a JSON member on a line of its own, a bare JSON *)
(* literal, a line of prose "Label: value", a percentage, or prose with no *)
(* brace in it.  len is the number of characters of the piece.             *)
(***************************************************************************)
Piece(k, key, v, len) == [k |-> k, key |-> key, v |-> v, len |-> len]
LBrace == Piece("{", "{", JNull, 1)
RBrace == Piece("}", "}", JNull, 1)
Member(key, v, len) == Piece("member", key, v, len)
Literal(v, len) == Piece("literal", "", v, len)
Labelled(label, v, len) == Piece("labelled", label, v, len)
Percent(numeral) == Piece("percent", numeral, JNull, 3)
Prose(words, len) == Piece("prose", words, JNull, len)

\* the keywords of the text scraper that occur in a label, a member name or
\* a stretch of prose, letter case ignored
Mentions ==
    ("Plant name" :> {"plant name", "name"}) @@
    ("Scientific name" :> {"scientific name", "name"}) @@
    ("Family" :> {"family"}) @@
    ("Confidence" :> {"confidence"}) @@
    ("Description" :> {"description"}) @@
    ("Light" :> {"light"}) @@
    ("plantName" :> {"name"}) @@
    ("confidence" :> {"confidence"}) @@
    ("description" :> {"description"}) @@
    ("Here is the JSON you asked for:" :> {"json"})

Mentioned(piece) == IF piece.key \in DOMAIN Mentions THEN Mentions[piece.key] ELSE {}

\* a text up to its first "n", "r" or backslash, the characters the class
\* [^\\n\\r] of extractDescription leaves out
UpToNR ==
    ("A spiky succulent" :> "A spiky succule") @@
    ("Aloe vera" :> "Aloe ve") @@
    ("Aloe" :> "Aloe")

\* the characters of a JSON value as they stand in a member
ValueText(v) ==
    CASE v.t = "str" -> <<"\"">> \o v.v \o <<"\"">>
      [] v.t = "num" -> <<ToString(v.v)>>
      [] OTHER -> <<"null">>

\* the rest of the line after the name of the member at position i: the
\* closing quote, the colon, the value, and a comma unless it is the last
RestOfLine(text, i) ==
    <<"\": ">> \o ValueText(text[i].v)
        \o (IF i < Len(text) /\ text[i + 1].k = "member" THEN <<",">> ELSE <<>>)

PieceText(text, i) ==
    CASE text[i].k = "member" -> <<"\"", text[i].key>> \o RestOfLine(text, i)
      [] text[i].k = "labelled" -> <<text[i].key, ": ">> \o text[i].v.v
      [] text[i].k = "literal" -> ValueText(text[i].v)
      [] text[i].k = "percent" -> <<text[i].key, "%">>
      [] OTHER -> <<text[i].key>>

RECURSIVE WholeTextFrom(_, _)
WholeTextFrom(text, i) ==
    IF i > Len(text) THEN <<>> ELSE PieceText(text, i) \o WholeTextFrom(text, i + 1)

RECURSIVE CharsFrom(_, _)
CharsFrom(text, i) == IF i > Len(text) THEN 0 ELSE text[i].len + CharsFrom(text, i + 1)

\* the positions of text whose piece satisfies Test
Where(text, Test(_)) == {i \in 1..Len(text) : Test(text[i])}

\* the least and the greatest of a set of positions, 0 for the empty set
First(positions) ==
    IF positions = {} THEN 0 ELSE CHOOSE i \in positions : \A j \in positions : i <= j

Last(positions) ==
    IF positions = {} THEN 0 ELSE CHOOSE i \in positions : \A j \in positions : i >= j

\* a match that never finds anything
matchNothing(text) == [found |-> FALSE, text |-> <<>>]

\* content.match(/\{[\s\S]*\}/): the text from the first opening brace to
\* the last closing brace after it; found is FALSE for a null match
matchBraces(text) ==
    LET IsOpen(p) == p.k = "{"
        IsClose(p) == p.k = "}"
        first == First(Where(text, IsOpen))
        last == Last(Where(text, IsClose))
    IN  IF first > 0 /\ last > first
        THEN [found |-> TRUE, text |-> SubSeq(text, first, last)]
        ELSE [found |-> FALSE, text |-> <<>>]

\* the texts JSON.parse accepts: one literal, or members between one pair of braces
ParsesAsJson(text) ==
    \/ Len(text) = 1 /\ text[1].k = "literal"
    \/ /\ Len(text) >= 2
       /\ text[1].k = "{"
       /\ text[Len(text)].k = "}"
       /\ \A i \in 2..(Len(text) - 1) : text[i].k = "member"

\* JSON.parse of such a text; of two members of one name the later counts
JSONparseText(text) ==
    IF Len(text) = 1 THEN text[1].v
    ELSE JObj([key \in {text[i].key : i \in 2..(Len(text) - 1)} |->
                text[CHOOSE i \in 2..(Len(text) - 1) :
                        /\ text[i].key = key
                        /\ \A j \in (i + 1)..(Len(text) - 1) : text[j].key # key].v])

\* the capture of `${keyword}:?\s*([^\n\r\.]+)` at the first place the
\* keyword occurs, null when it occurs nowhere
Capture(text, keyword) ==
    LET Has(p) == p.k \in {"labelled", "member"} /\ keyword \in Mentioned(p)
        i == First(Where(text, Has))
    IN  IF i = 0 THEN JNull
        ELSE IF text[i].k = "labelled" THEN text[i].v
        ELSE JStr(RestOfLine(text, i))

RECURSIVE extractValue(_, _)
extractValue(text, keywords) ==
    IF keywords = <<>> THEN JNull
    ELSE IF Truthy(Capture(text, keywords[1])) THEN Capture(text, keywords[1])
    ELSE extractValue(text, Tail(keywords))

extractCareValue(text, careType) == Capture(text, careType)

\* parseInt of the digits after "confidence:", else of the digits before the
\* first "%", else null; a member's name is followed by a quote, not digits
extractConfidence(text) ==
    LET Scored(p) ==
            /\ p.k = "labelled"
            /\ "confidence" \in Mentioned(p)
            /\ p.v.v # <<>>
            /\ p.v.v[1] \in DOMAIN NumeralValue
        IsPercent(p) == p.k = "percent" /\ p.key \in DOMAIN NumeralValue
        i == First(Where(text, Scored))
        j == First(Where(text, IsPercent))
    IN  IF i > 0 THEN JNum(NumeralValue[text[i].v.v[1]])
        ELSE IF j > 0 THEN JNum(NumeralValue[text[j].key])
        ELSE JNull

Cut(sym) == IF sym \in DOMAIN UpToNR THEN UpToNR[sym] ELSE sym

\* the text after "description" up to the first "n", "r" or backslash; else
\* the whole text when it is longer than 50 characters and does not say "json"
extractDescription(text) ==
    LET Has(p) == p.k \in {"labelled", "member"} /\ "description" \in Mentioned(p)
        SaysJson(p) == "json" \in Mentioned(p)
        i == First(Where(text, Has))
    IN  IF i > 0 /\ text[i].k = "labelled" /\ text[i].v.v # <<>>
            THEN JStr(<<Cut(text[i].v.v[1])>>)
        ELSE IF i > 0 /\ text[i].k = "member" /\ text[i].v.t = "str" /\ text[i].v.v # <<>>
            THEN JStr(<<"\": \"", Cut(text[i].v.v[1])>>)
        ELSE IF i > 0 /\ text[i].k = "member"
            THEN JStr(<<"\": ">>)
        ELSE IF CharsFrom(text, 1) > 50 /\ First(Where(text, SaysJson)) = 0
            THEN JStr(WholeTextFrom(text, 1))
        ELSE JNull

Or(x, fallback) == IF Truthy(x) THEN x ELSE fallback

parseTextResponse(text) ==
    JObj([plantName |->
            Or(extractValue(text, <<"plant name", "common name", "name">>),
               Words(<<"Unknown", "Plant">>)),
          scientificName |->
            Or(extractValue(text, <<"scientific name", "binomial", "latin name">>),
               Words(<<"Species", "unknown">>)),
          family |->
            Or(extractValue(text, <<"family", "plant family">>),
               Words(<<"Family", "unknown">>)),
          confidence |-> Or(extractConfidence(text), JNum(50)),
          description |->
            Or(extractDescription(text), Str("Plant identification analysis completed.")),
          careInstructions |->
            JObj([light |-> Or(extractCareValue(text, "light"), Str("Bright, indirect light")),
                  water |-> Or(extractCareValue(text, "water"), Str("Water when top soil is dry")),
                  soil |-> Or(extractCareValue(text, "soil"), Str("Well-draining potting mix")),
                  temperature |->
                    Or(extractCareValue(text, "temperature"), Str("65-75 F (18-24 C)")),
                  humidity |->
                    Or(extractCareValue(text, "humidity"), Str("Moderate humidity 40-60%")),
                  fertilizer |->
                    Or(extractCareValue(text, "fertilizer"), Str("Monthly during growing season")),
                  propagation |->
                    Or(extractCareValue(text, "propagation"), Str("Varies by species")),
                  commonIssues |->
                    Or(extractCareValue(text, "issues"), Str("Monitor for pests and diseases"))]),
          characteristics |-> defaults.characteristics,
          seasonalCare |-> defaults.seasonalCare,
          tips |-> defaults.tips])

(***************************************************************************)
(* AIService.identifyPlant                                                 *)
(***************************************************************************)
\* FileReader.readAsDataURL: the data URL of a file
readAsDataURL(file) == <<"data:", file.type, ";base64", ",", file.content>>

\* result.split(',')[1]: what stands between the first comma and the next
splitAtComma1(s) ==
    LET Commas == {i \in 1..Len(s) : s[i] = ","}
        first == CHOOSE i \in Commas : \A j \in Commas : i <= j
        Later == {i \in Commas : i > first}
        next == IF Later = {} THEN Len(s) + 1
                ELSE CHOOSE i \in Later : \A j \in Later : i <= j
    IN  IF Commas = {} THEN JUndefined ELSE JStr(SubSeq(s, first + 1, next - 1))

\* the data URL with the media type written out
imageDataUrlJpeg(file, base64) ==
    JStr(<<"data:", "image/jpeg", ";base64", ",">>
            \o (IF base64.t = "str" THEN base64.v ELSE <<"undefined">>))

\* `data:${imageFile.type};base64,${base64Image}`
imageDataUrl(file, base64) ==
    JStr(<<"data:", file.type, ";base64", ",">>
            \o (IF base64.t = "str" THEN base64.v ELSE <<"undefined">>))

ErrorObject(name, message) == JObj([name |-> Str(name), message |-> message])
\* the event a FileReader hands to onerror: it has no name and no message
ProgressEvent == JObj([type |-> Str("error")])
ConversionError == ErrorObject("Error", Str("Failed to convert file to base64"))
NetworkError == ErrorObject("TypeError", Str("Failed to fetch"))
AbortError == ErrorObject("AbortError", Str("The user aborted a request."))
BodySyntaxError == ErrorObject("SyntaxError", Str("Unexpected token < in JSON"))
PropertyTypeError == ErrorObject("TypeError", Str("Cannot read properties of it"))
StructureError == ErrorObject("Error", Str("Invalid API response structure"))
\* `API request failed: ${response.status} ${response.statusText}`
ApiErrorMessage(response) ==
    JStr(<<"API request failed: ", ToString(response.status), " ", response.statusText>>)
ApiError(response) == ErrorObject("Error", ApiErrorMessage(response))

\* response.ok
ok(response) == response.status \in 200..299

getFallbackResponse ==
    JObj([plantName |-> Words(<<"Plant", "Identification", "Unavailable">>),
          scientificName |-> Words(<<"Analysis", "required">>),
          family |-> Words(<<"Unknown", "family">>),
          confidence |-> JNum(0),
          description |-> Str("Unable to complete plant identification."),
          careInstructions |->
            JObj([light |-> Str("Most plants prefer bright, indirect light"),
                  water |-> Str("Water when the top inch of soil feels dry"),
                  soil |-> Str("Use well-draining potting soil"),
                  temperature |-> Str("Keep between 65-75 F (18-24 C)"),
                  humidity |-> Str("Maintain 40-60% humidity if possible"),
                  fertilizer |-> Str("Feed monthly during spring and summer"),
                  propagation |-> Str("Research specific methods for your plant type"),
                  commonIssues |-> Str("Watch for yellowing leaves, pests, or wilting")]),
          characteristics |->
            JObj([size |-> Str("Varies significantly by species"),
                  growth |-> Str("Growth rate depends on species and care"),
                  blooming |-> Str("Flowering varies by plant type"),
                  toxicity |-> Str("Always research plant safety before handling"),
                  difficulty |-> Str("Care difficulty varies by species")]),
          seasonalCare |->
            JObj([spring |-> Str("Resume regular feeding and increase watering"),
                  summer |-> Str("Maintain consistent care and monitor for heat stress"),
                  fall |-> Str("Begin reducing fertilizer and watering frequency"),
                  winter |-> Str("Reduce watering and maintain stable environment")]),
          tips |->
            JArr(<<Str("Take clear, well-lit photos for better identification"),
                   Str("Include multiple angles showing leaves, stems, and growth pattern"),
                   Str("Note the plant's current growing conditions and any issues")>>)])

FailureEnvelope(message) ==
    JObj([success |-> JBool(FALSE), error |-> message, fallback |-> getFallbackResponse])

\* the same without the default for an error that has no message
CatchEnvelopeNoDefault(error) ==
    IF error.t \in {"null", "undefined"} THEN Thrown
    ELSE IF Prop(error, "name") = Str("AbortError")
        THEN FailureEnvelope(Str("Request timeout - plant analysis took too long"))
    ELSE FailureEnvelope(Prop(error, "message"))

\* the catch block of identifyPlant; reading error.name of null or undefined
\* would throw out of it
CatchEnvelope(error) ==
    IF error.t \in {"null", "undefined"} THEN Thrown
    ELSE IF Prop(error, "name") = Str("AbortError")
        THEN FailureEnvelope(Str("Request timeout - plant analysis took too long"))
    ELSE FailureEnvelope(Or(Prop(error, "message"), Str("Failed to identify plant")))

Returned(value, cause) == [thrown |-> FALSE, value |-> value, cause |-> cause]
Threw(error, cause) == [thrown |-> TRUE, value |-> error, cause |-> cause]

\* the inner try and catch: JSON out of the content, else the text scraper;
\* a content that is no string has no match method, in either
PlantDataOf(content) ==
    IF content.t # "str" THEN Threw(PropertyTypeError, "content")
    ELSE LET jsonMatch == matchBraces(content.v)
             jsonString == IF jsonMatch.found THEN jsonMatch.text ELSE content.v
         IN  IF ParsesAsJson(jsonString)
             THEN Returned(JSONparseText(jsonString), "success")
             ELSE Returned(parseTextResponse(content.v), "success")

\* the statements after `await response.json()`, on the parsed body data
AfterBody(data, now, file, base64) ==
    IF data.t \in {"null", "undefined"} THEN Threw(PropertyTypeError, "structure")
    ELSE IF \/ ~Truthy(Prop(data, "choices"))
            \/ ~Truthy(Prop(Prop(data, "choices"), "0"))
            \/ ~Truthy(Prop(Prop(Prop(data, "choices"), "0"), "message"))
        THEN Threw(StructureError, "structure")
    ELSE LET content == Prop(Prop(Prop(Prop(data, "choices"), "0"), "message"), "content")
             plantData == PlantDataOf(content)
         IN  IF plantData.thrown THEN plantData
             ELSE IF NormalizeThrows(plantData.value)
                 THEN Threw(PropertyTypeError, "content")
             ELSE Returned(SuccessEnvelope(validateAndEnhanceResponse(plantData.value),
                                           now, imageDataUrl(file, base64)),
                           "success")

\* what identifyPlant resolves to from an outcome of its try block
Resolve(outcome) == IF outcome.thrown THEN CatchEnvelope(outcome.value) ELSE outcome.value

(***************************************************************************)
(* CameraService.  A stream is a number; the streams in live are those the *)
(* platform handed out whose tracks have not been stopped.  A handler runs *)
(* to its end, or to its first await, before another one starts.           *)
(***************************************************************************)
\* the fields stopCamera writes
CamState ==
    [stream |-> stream, isActive |-> isActive, srcObject |-> srcObject, live |-> live,
     cameraShown |-> cameraShown, uploadShown |-> uploadShown]

\* a stop that clears the fields and leaves the tracks running
ReleaseWithoutStop(c, video) ==
    [c EXCEPT !.stream = NoStream,
              !.srcObject = IF video THEN NoStream ELSE c.srcObject,
              !.isActive = FALSE,
              !.cameraShown = FALSE,
              !.uploadShown = TRUE]

\* a stop that drops the stream and leaves the camera marked active
StopLeavesActive(c, video) ==
    [c EXCEPT !.live = IF c.stream # NoStream THEN c.live \ {c.stream} ELSE c.live,
              !.stream = NoStream,
              !.srcObject = IF video THEN NoStream ELSE c.srcObject,
              !.cameraShown = FALSE,
              !.uploadShown = TRUE]

\* stopCamera on the fields c: every track of the stream held is stopped, the
\* stream and the preview source are dropped, the camera container is hidden
StopFields(c, video) ==
    [c EXCEPT !.live = IF c.stream # NoStream THEN c.live \ {c.stream} ELSE c.live,
              !.stream = NoStream,
              !.srcObject = IF video THEN NoStream ELSE c.srcObject,
              !.isActive = FALSE,
              !.cameraShown = FALSE,
              !.uploadShown = TRUE]

SetCamState(c) ==
    /\ stream' = c.stream
    /\ isActive' = c.isActive
    /\ srcObject' = c.srcObject
    /\ live' = c.live
    /\ cameraShown' = c.cameraShown
    /\ uploadShown' = c.uploadShown

stopCamera == SetCamState(StopFields(CamState, videoElement))

showError(message) == notice' = [message |-> message, type |-> "error"]
showSuccess(message) == notice' = [message |-> message, type |-> "success"]

\* the message handleCameraError shows for an error of the given name
CameraErrorMessage(name, message) ==
    CASE name = "NotAllowedError" ->
            "Camera access denied. Please allow camera permissions and try again."
      [] name = "NotFoundError" -> "No camera found. Please connect a camera and try again."
      [] name = "NotSupportedError" -> "Camera not supported in this browser."
      [] name = "NotReadableError" -> "Camera is being used by another application."
      [] name = "OverconstrainedError" -> "Camera constraints cannot be satisfied."
      [] name = "SecurityError" -> "Camera access blocked for security reasons."
      [] OTHER -> "Camera error: " \o message

handleCameraError(error) == showError(CameraErrorMessage(error.name, error.message))

\* startCamera up to its request: without the API an error is shown and false
\* is returned; else the stream held is stopped and the device is asked for
startCamera ==
    IF ~mediaDevices
    THEN /\ showError("Camera not supported in this browser")
         /\ camReturned' = "false"
         /\ UNCHANGED <<stream, isActive, srcObject, live, cameraShown, uploadShown, requests,
                        released>>
    ELSE /\ stopCamera
         /\ requests' = requests + 1
         /\ released' = FALSE
         /\ UNCHANGED <<notice, camReturned>>

\* a check that lets every call through
CanCaptureAlways(active, video) == TRUE

\* the check capturePhoto starts with: the camera active, on a video element
CanCapture(active, video) == active /\ video

\* the file made of the encoded frame
CapturedFile == [type |-> "image/jpeg", content |-> "/9j/frame", size |-> 204800]

\* a hand-over that shows the preview and keeps the file to itself
processCapturedImageUnstored(file) ==
    /\ windowCurrentImageFile' = windowCurrentImageFile
    /\ previewShown' = TRUE
    /\ showSuccess("Photo captured successfully! Click \"Analyze Plant\" to identify.")

\* processCapturedImage(file): the file becomes window.currentImageFile and the
\* preview is shown
processCapturedImage(file) ==
    /\ windowCurrentImageFile' = file
    /\ previewShown' = TRUE
    /\ showSuccess("Photo captured successfully! Click \"Analyze Plant\" to identify.")

(***************************************************************************)
(* PlantIdentificationApp: the file chosen and its analysis.               *)
(***************************************************************************)
\* 10 * 1024 * 1024
MaxFileSize == 10485760

validTypes == {"image/jpeg", "image/jpg", "image/png", "image/gif", "image/webp"}

\* file.type.toLowerCase(), on the types of the files used here
TypeLowerCase(type) == IF type = "IMAGE/GIF" THEN "image/gif" ELSE type

\* a check that takes every file for an image
isValidImageFileAny(file) == TRUE

isValidImageFile(file) == TypeLowerCase(file.type) \in validTypes

\* processImageFile(file): the file becomes the current image in both places
processImageFile(file) ==
    /\ currentImageFile' = file
    /\ windowCurrentImageFile' = file
    /\ previewShown' = TRUE
    /\ uploadShown' = FALSE
    /\ showNotification("Image loaded successfully! Click \"Analyze Plant\" to identify.",
                        "success")

\* handleFileSelection(event), file being event.target.files[0]
handleFileSelection(file) ==
    IF ~isValidImageFile(file)
    THEN /\ showNotification("Please select a valid image file (JPG, PNG, GIF, WebP)", "error")
         /\ UNCHANGED <<currentImageFile, windowCurrentImageFile, previewShown, uploadShown>>
    ELSE IF file.size > MaxFileSize
    THEN /\ showNotification("Image file is too large. Please select a file smaller than 10MB.",
                             "error")
         /\ UNCHANGED <<currentImageFile, windowCurrentImageFile, previewShown, uploadShown>>
    ELSE processImageFile(file)

\* a check of the image alone
AnalyzeRefusalImageFirst(hasImage, identifying) ==
    IF ~hasImage \/ identifying THEN "Please select an image first" ELSE ""

\* the two checks analyzeCurrentImage starts with: the message it returns
\* after, "" when it goes on
AnalyzeRefusal(hasImage, identifying) ==
    IF ~hasImage THEN "Please select an image first"
    ELSE IF identifying THEN "Analysis already in progress"
    ELSE ""

\* if (result.success)
Succeeded(result) == Truthy(Prop(result, "success"))

\* the preview brought back with the loading container left on display
hideLoadingStateNot ==
    /\ previewShown' = TRUE
    /\ UNCHANGED loadingShown

\* hideLoadingState()
hideLoadingState ==
    /\ loadingShown' = FALSE
    /\ previewShown' = TRUE

\* whether createResultsHTML throws on result.data: a property read off null
\* or undefined, or map called on tips that are a non-empty string
displayResultsThrows(result) ==
    LET data == Prop(result, "data")
        tips == Prop(data, "tips")
    IN  \/ Prop(data, "careInstructions").t \in {"null", "undefined"}
        \/ Prop(data, "characteristics").t \in {"null", "undefined"}
        \/ (tips.t = "str" /\ Len(tips.v) > 0)

(***************************************************************************)
(* Specifications                                                          *)
(***************************************************************************)
NormIdle ==
    /\ reply = JNull
    /\ enhanced = NotRun

HistInit ==
    /\ storage = NoItem
    /\ gridShown = FALSE
    /\ gridItems = <<>>
    /\ searchInput = <<>>
    /\ exported = NoItem
    /\ notice = NoNotice
    /\ saved = NoCall
    /\ clock = 0
    /\ log = <<>>
    /\ removals = 0
    /\ tabs = [t \in TabIds |-> IdleTab]

AiInit ==
    /\ aiPc = "idle"
    /\ aiFile = NoFile
    /\ aiBase64 = JUndefined
    /\ aiTimer = "unset"
    /\ aiResponse = NoResponse
    /\ aiData = JUndefined
    /\ aiResult = NotRun
    /\ aiCause = "none"

\* the camera service as constructed, on a platform that has a camera API
CamConstructed ==
    /\ videoElement = FALSE
    /\ stream = NoStream
    /\ isActive = FALSE
    /\ facingMode = "environment"
    /\ srcObject = NoStream
    /\ cameraShown = FALSE
    /\ live = {}
    /\ acquired = 0
    /\ requests = 0
    /\ captures = 0
    /\ camPc = "idle"
    /\ camReturned = NoCall
    /\ released = FALSE

CamInit == mediaDevices = TRUE /\ CamConstructed

\* the controller as constructed, the upload area on display
AppInit ==
    /\ currentImageFile = NoFile
    /\ windowCurrentImageFile = NoFile
    /\ isIdentifying = FALSE
    /\ uploadShown = TRUE
    /\ previewShown = FALSE
    /\ loadingShown = FALSE
    /\ resultsShown = FALSE

\* normalization applied to each reply
InitNorm ==
    /\ reply \in Replies
    /\ enhanced = NotRun
    /\ HistInit
    /\ AiInit
    /\ CamInit
    /\ AppInit

SpecNorm == InitNorm /\ [][Normalize]_vars

\* the history store filled past its capacity: one identification per
\* millisecond, and the user deleting and clearing once the list is nearly full
MaxCapSaves == 103
MaxCapRemovals == 2

StoredIds == {Prop(getHistory[i], "id") : i \in 1..Len(getHistory)}

CapResult == IF Len(log) % 2 = 0 THEN Identified(AloeReply) ELSE Identified(MonsteraReply)

CapSave ==
    /\ Len(log) < MaxCapSaves
    /\ saveToHistory(CapResult, clock + 1, 0, TRUE)
    /\ UNCHANGED notice
    /\ UNCHANGED <<normVars, aiVars, camVars, appVars, uiVars, panelVars, tabs>>

CapDelete ==
    /\ removals < MaxCapRemovals
    /\ Len(log) >= maxHistoryItems - 1
    /\ \E itemId \in {Prop(getHistory[i], "id") : i \in {1, Len(getHistory)} \cap 1..Len(getHistory)}
                        \cup {AbsentId} :
            deleteItem(itemId, TRUE)
    /\ UNCHANGED <<normVars, aiVars, camVars, appVars, uiVars, panelVars, tabs>>

CapClear ==
    /\ removals < MaxCapRemovals
    /\ Len(log) >= maxHistoryItems - 1
    /\ confirmClearHistory(TRUE)
    /\ UNCHANGED <<normVars, aiVars, camVars, appVars, uiVars, panelVars, tabs>>

InitCap == NormIdle /\ HistInit /\ AiInit /\ CamInit /\ AppInit
NextCap == CapSave \/ CapDelete \/ CapClear
SpecCap == InitCap /\ [][NextCap]_vars

\* the history store filled past its capacity with the quota reached now and
\* then once the list is nearly full: a save whose write is refused
MaxCapRefusals == 2

CapSaveRefused ==
    /\ Len(log) < MaxCapSaves
    /\ Len(log) >= maxHistoryItems - 1
    /\ clock - Len(log) < MaxCapRefusals
    /\ saveToHistory(CapResult, clock + 1, 0, FALSE)
    /\ UNCHANGED notice
    /\ UNCHANGED <<normVars, aiVars, camVars, appVars, uiVars, panelVars, tabs>>

NextQuota == CapSave \/ CapSaveRefused
SpecQuota == InitCap /\ [][NextQuota]_vars

\* the history store in use: identifications saved, deleted and cleared, two
\* saves possibly within one millisecond and a write possibly refused
MaxSaves == 2
MaxRemovals == 2
MaxClock == 1

Save ==
    /\ Len(log) < MaxSaves
    /\ \E result \in Results, now \in {clock, clock + 1}, random \in RandomDraws,
          writeOk \in BOOLEAN :
            /\ now <= MaxClock
            /\ saveToHistory(result, now, random, writeOk)
    /\ UNCHANGED notice
    /\ UNCHANGED <<normVars, aiVars, camVars, appVars, uiVars, panelVars, tabs>>

Delete ==
    /\ removals < MaxRemovals
    /\ \E itemId \in StoredIds \cup {AbsentId}, confirmed \in BOOLEAN :
            deleteItem(itemId, confirmed)
    /\ UNCHANGED <<normVars, aiVars, camVars, appVars, uiVars, panelVars, tabs>>

Clear ==
    /\ removals < MaxRemovals
    /\ \E confirmed \in BOOLEAN : confirmClearHistory(confirmed)
    /\ UNCHANGED <<normVars, aiVars, camVars, appVars, uiVars, panelVars, tabs>>

Filter ==
    /\ \E searchTerm \in SearchTerms : filterHistory(searchTerm)
    /\ UNCHANGED <<normVars, aiVars, camVars, appVars, uiVars, panelVars, tabs>>

Export ==
    /\ exportHistory
    /\ UNCHANGED <<normVars, aiVars, camVars, appVars, uiVars, panelVars, tabs>>

InitHist == NormIdle /\ HistInit /\ AiInit /\ CamInit /\ AppInit
NextHist == Save \/ Delete \/ Clear
SpecHist == InitHist /\ [][NextHist]_vars

\* one identification per millisecond, every write taken
SaveLater ==
    /\ Len(log) < MaxSaves
    /\ \E result \in Results : saveToHistory(result, clock + 1, 0, TRUE)
    /\ UNCHANGED notice
    /\ UNCHANGED <<normVars, aiVars, camVars, appVars, uiVars, panelVars, tabs>>

\* the history searched
NextSearch == SaveLater \/ Delete \/ Clear \/ Filter
SpecSearch == InitHist /\ [][NextSearch]_vars

\* the history exported
NextExport == SaveLater \/ Delete \/ Filter \/ Export
SpecExport == InitHist /\ [][NextExport]_vars

\* one identifyPlant call, from the call to the envelope
ImageFiles ==
    {[type |-> "image/jpeg", content |-> "/9j/4AAQ", size |-> 2048],
     [type |-> "image/png", content |-> "iVBORw0KGgo=", size |-> 4096],
     [type |-> "image/webp", content |-> "UklGRg==", size |-> 1024]}

Responses ==
    {[status |-> 200, statusText |-> "OK"],
     [status |-> 200, statusText |-> ""],
     [status |-> 404, statusText |-> ""],
     [status |-> 429, statusText |-> "Too Many Requests"],
     [status |-> 500, statusText |-> "Internal Server Error"]}

AloeMembers ==
    <<Member("plantName", Words(<<"Aloe", "vera">>), 24),
      Member("confidence", JNum(85), 16)>>

Contents ==
    {JStr(<<LBrace>> \o AloeMembers \o <<RBrace>>),
     JStr(<<Prose("Here is the JSON you asked for:", 31), LBrace>> \o AloeMembers
            \o <<RBrace, Prose("Happy growing!", 14)>>),
     JStr(<<Prose("Fill in", 8), LBrace, Prose("field", 5), RBrace, Prose("like this:", 12),
            LBrace>> \o AloeMembers \o <<RBrace>>),
     JStr(<<Prose("Done", 4), RBrace, Prose("Result:", 8), LBrace>> \o AloeMembers
            \o <<RBrace, Prose("More", 4), LBrace, Prose("soon", 4)>>),
     JStr(<<LBrace>> \o AloeMembers),
     JStr(<<LBrace, Member("description", Str("A spiky succulent"), 34), Prose("cut off", 7)>>),
     JStr(<<Labelled("Plant name", Words(<<"Aloe", "vera">>), 20),
            Labelled("Confidence", JStr(<<"85">>), 14),
            Labelled("Description", Str("A spiky succulent"), 30)>>),
     JStr(<<Labelled("Scientific name", Str("Aloe"), 21),
            Labelled("Confidence", JStr(<<"0">>), 13),
            Labelled("Light", Str("Full sun"), 15)>>),
     JStr(<<Prose("It looks healthy and is about", 29), Percent("75"),
            Prose("likely to be an aloe.", 21)>>),
     JStr(<<Prose("No plant here", 13)>>),
     JStr(<<>>),
     JStr(<<Literal(JNum(42), 2)>>),
     JStr(<<Literal(JNull, 4)>>),
     JNull,
     JUndefined,
     JArr(<<JObj([type |-> Str("text")])>>)}

MessageWith(content) ==
    IF content.t = "undefined" THEN JObj([role |-> Str("assistant")])
    ELSE JObj([role |-> Str("assistant"), content |-> content])

BodyWith(message) == JObj([choices |-> JArr(<<JObj([message |-> message])>>)])

Bodies ==
    {BodyWith(MessageWith(content)) : content \in Contents}
        \cup {JNull,
              JNum(42),
              JObj([error |-> Str("overloaded")]),
              JObj([choices |-> JArr(<<>>)]),
              JObj([choices |-> JArr(<<JObj([index |-> JNum(0)])>>)]),
              BodyWith(JNull)}

histRest == <<storage, gridShown, gridItems, searchInput, exported, notice, saved,
              log, removals>>

\* identifyPlant(imageFile) is called and starts reading the file
CallIdentify ==
    /\ aiPc = "idle"
    /\ \E file \in ImageFiles : aiFile' = file
    /\ aiPc' = "reading"
    /\ UNCHANGED <<aiBase64, aiTimer, aiResponse, aiData, aiResult, aiCause>>
    /\ UNCHANGED <<normVars, histVars, camVars, appVars, uiVars, panelVars, tabs>>

\* the FileReader loads the file: the request is built, the timer is set and
\* the fetch is sent
FileLoads ==
    /\ aiPc = "reading"
    /\ aiBase64' = splitAtComma1(readAsDataURL(aiFile))
    /\ aiTimer' = "armed"
    /\ aiPc' = "fetching"
    /\ UNCHANGED <<aiFile, aiResponse, aiData, aiResult, aiCause>>
    /\ UNCHANGED <<normVars, histVars, camVars, appVars, uiVars, panelVars, tabs>>

\* the FileReader fails, or loads something that is no string
FileFails ==
    /\ aiPc = "reading"
    /\ \E error \in {ProgressEvent, ConversionError} :
            aiResult' = Resolve(Threw(error, "read"))
    /\ aiCause' = "read"
    /\ aiPc' = "done"
    /\ UNCHANGED <<aiFile, aiBase64, aiTimer, aiResponse, aiData>>
    /\ UNCHANGED <<normVars, histVars, camVars, appVars, uiVars, panelVars, tabs>>

\* the response headers arrive: the timer is cleared and the status is tested
FetchResponds ==
    /\ aiPc = "fetching"
    /\ aiTimer = "armed"
    /\ \E response \in Responses :
        /\ aiResponse' = response
        /\ aiTimer' = "cleared"
        /\ IF ~ok(response)
           THEN /\ aiResult' = Resolve(Threw(ApiError(response), "http"))
                /\ aiCause' = "http"
                /\ aiPc' = "done"
           ELSE /\ aiPc' = "body"
                /\ UNCHANGED <<aiResult, aiCause>>
    /\ UNCHANGED <<aiFile, aiBase64, aiData>>
    /\ UNCHANGED <<normVars, histVars, camVars, appVars, uiVars, panelVars, tabs>>

\* the fetch rejects for want of a connection; the timer stays set
FetchFails ==
    /\ aiPc = "fetching"
    /\ aiTimer = "armed"
    /\ aiResult' = Resolve(Threw(NetworkError, "network"))
    /\ aiCause' = "network"
    /\ aiPc' = "done"
    /\ UNCHANGED <<aiFile, aiBase64, aiTimer, aiResponse, aiData>>
    /\ UNCHANGED <<normVars, histVars, camVars, appVars, uiVars, panelVars, tabs>>

\* the timer fires and aborts the controller: a fetch still waiting for its
\* headers rejects with an AbortError, a call that is over is not touched
TimerFires ==
    /\ aiTimer = "armed"
    /\ aiTimer' = "fired"
    /\ IF aiPc = "fetching"
       THEN /\ aiResult' = Resolve(Threw(AbortError, "timeout"))
            /\ aiCause' = "timeout"
            /\ aiPc' = "done"
       ELSE UNCHANGED <<aiResult, aiCause, aiPc>>
    /\ UNCHANGED <<aiFile, aiBase64, aiResponse, aiData>>
    /\ UNCHANGED <<normVars, histVars, camVars, appVars, uiVars, panelVars, tabs>>

\* response.json() resolves and the rest of identifyPlant runs
BodyArrivesWith(data, now) ==
    LET outcome == AfterBody(data, now, aiFile, aiBase64)
    IN  /\ aiPc = "body"
        /\ aiData' = data
        /\ aiResult' = Resolve(outcome)
        /\ aiCause' = outcome.cause
        /\ clock' = now
        /\ aiPc' = "done"
        /\ UNCHANGED <<aiFile, aiBase64, aiTimer, aiResponse>>
        /\ UNCHANGED <<normVars, histRest, camVars, appVars, uiVars, panelVars, tabs>>

BodyArrives == \E data \in Bodies, now \in clock..MaxClock : BodyArrivesWith(data, now)

\* response.json() rejects: the body is no JSON
BodyFails ==
    /\ aiPc = "body"
    /\ aiResult' = Resolve(Threw(BodySyntaxError, "body"))
    /\ aiCause' = "body"
    /\ aiPc' = "done"
    /\ UNCHANGED <<aiFile, aiBase64, aiTimer, aiResponse, aiData>>
    /\ UNCHANGED <<normVars, histVars, camVars, appVars, uiVars, panelVars, tabs>>

InitIdentify == NormIdle /\ HistInit /\ AiInit /\ CamInit /\ AppInit

NextIdentify ==
    \/ CallIdentify
    \/ FileLoads
    \/ FileFails
    \/ FetchResponds
    \/ FetchFails
    \/ TimerFires
    \/ BodyArrives
    \/ BodyFails

SpecIdentify == InitIdentify /\ [][NextIdentify]_vars

\* the same call with the steps the page itself is bound to take: the file
\* read ends and an armed timer fires; what the endpoint does, and when, is
\* left open
LiveIdentify ==
    /\ InitIdentify
    /\ [][NextIdentify]_vars
    /\ WF_vars(FileLoads)
    /\ WF_vars(TimerFires)

\* the camera in use: the service set up, started, stopped, switched and
\* cleaned up, photos taken, the platform granting or refusing the device
MaxStreams == 2
MaxRequests == 2
MaxCaptures == 1

CameraErrors ==
    {[name |-> n, message |-> "Could not start video source"] :
        n \in {"NotAllowedError", "NotFoundError", "NotSupportedError", "NotReadableError",
               "OverconstrainedError", "SecurityError", "AbortError"}}

histQuiet == <<storage, gridShown, gridItems, searchInput, exported, saved, clock, log,
               removals, tabs>>
camFrame == <<normVars, aiVars, histQuiet, currentImageFile, isIdentifying, mediaDevices,
              panelVars>>

\* init(): the preview element is looked up
SetUpCamera ==
    /\ camPc = "idle"
    /\ ~videoElement
    /\ videoElement' = TRUE
    /\ UNCHANGED <<stream, isActive, facingMode, srcObject, cameraShown, live, acquired,
                   requests, captures, camPc, camReturned, notice, windowCurrentImageFile,
                   uploadShown, previewShown>>
    /\ UNCHANGED released
    /\ UNCHANGED camFrame

\* startCamera() is called
StartCamera ==
    /\ camPc = "idle"
    /\ requests < MaxRequests
    /\ startCamera
    /\ UNCHANGED <<videoElement, facingMode, acquired, captures, camPc,
                   windowCurrentImageFile, previewShown>>
    /\ UNCHANGED camFrame

\* the platform hands out a stream and startCamera goes on: the stream is
\* stored over whatever the field holds and, with a preview element, shown
DeviceGrants ==
    /\ camPc = "idle"
    /\ requests > 0
    /\ acquired < MaxStreams
    /\ requests' = requests - 1
    /\ acquired' = acquired + 1
    /\ live' = live \cup {acquired + 1}
    /\ stream' = acquired + 1
    /\ IF videoElement
       THEN /\ srcObject' = acquired + 1
            /\ isActive' = TRUE
            /\ cameraShown' = TRUE
            /\ uploadShown' = FALSE
            /\ camReturned' = "true"
       ELSE /\ camReturned' = "undefined"
            /\ UNCHANGED <<srcObject, isActive, cameraShown, uploadShown>>
    /\ UNCHANGED <<videoElement, facingMode, captures, camPc, notice,
                   windowCurrentImageFile, previewShown>>
    /\ UNCHANGED released
    /\ UNCHANGED camFrame

\* the platform refuses the device and startCamera goes on in its catch
DeviceRejects ==
    /\ camPc = "idle"
    /\ requests > 0
    /\ requests' = requests - 1
    /\ \E error \in CameraErrors : handleCameraError(error)
    /\ camReturned' = "false"
    /\ UNCHANGED <<videoElement, stream, isActive, facingMode, srcObject, cameraShown, live,
                   acquired, captures, camPc, windowCurrentImageFile, uploadShown,
                   previewShown>>
    /\ UNCHANGED released
    /\ UNCHANGED camFrame

\* stopCamera() is called
StopCamera ==
    /\ camPc = "idle"
    /\ stopCamera
    /\ camReturned' = "undefined"
    /\ UNCHANGED <<videoElement, facingMode, acquired, requests, captures, camPc, notice,
                   windowCurrentImageFile, previewShown>>
    /\ released' = TRUE
    /\ UNCHANGED camFrame

\* capturePhoto() is called: refused when the camera is not active, else the
\* frame is drawn and its encoding asked for, unless drawing throws
CapturePhoto ==
    /\ camPc = "idle"
    /\ captures < MaxCaptures
    /\ IF ~CanCapture(isActive, videoElement)
       THEN /\ showError("Camera not active")
            /\ camReturned' = "null"
            /\ UNCHANGED captures
       ELSE /\ camReturned' = "undefined"
            /\ \E drawn \in BOOLEAN :
                 IF drawn
                 THEN captures' = captures + 1 /\ UNCHANGED notice
                 ELSE showError("Failed to capture photo") /\ UNCHANGED captures
    /\ UNCHANGED <<videoElement, stream, isActive, facingMode, srcObject, cameraShown, live,
                   acquired, requests, camPc, windowCurrentImageFile, uploadShown,
                   previewShown>>
    /\ UNCHANGED released
    /\ UNCHANGED camFrame

\* the toBlob callback runs with a blob: the file is handed over
BlobReady ==
    /\ camPc = "idle"
    /\ captures > 0
    /\ captures' = captures - 1
    /\ processCapturedImage(CapturedFile)
    /\ camPc' = "handed"
    /\ UNCHANGED <<videoElement, stream, isActive, facingMode, srcObject, cameraShown, live,
                   acquired, requests, camReturned, uploadShown>>
    /\ UNCHANGED released
    /\ UNCHANGED camFrame

\* the toBlob callback runs with null
BlobFails ==
    /\ camPc = "idle"
    /\ captures > 0
    /\ captures' = captures - 1
    /\ showError("Failed to capture image")
    /\ UNCHANGED <<videoElement, stream, isActive, facingMode, srcObject, cameraShown, live,
                   acquired, requests, camPc, camReturned, windowCurrentImageFile,
                   uploadShown, previewShown>>
    /\ UNCHANGED released
    /\ UNCHANGED camFrame

\* the toBlob callback goes on after the hand-over: the camera is stopped
CaptureStops ==
    /\ camPc = "handed"
    /\ stopCamera
    /\ camPc' = "idle"
    /\ UNCHANGED <<videoElement, facingMode, acquired, requests, captures, camReturned,
                   notice, windowCurrentImageFile, previewShown>>
    /\ released' = TRUE
    /\ UNCHANGED camFrame

\* switchCamera() is called: on an active camera the facing mode is toggled
\* and the camera started again
SwitchCamera ==
    /\ camPc = "idle"
    /\ requests < MaxRequests
    /\ IF ~isActive
       THEN UNCHANGED <<facingMode, stream, isActive, srcObject, live, cameraShown,
                        uploadShown, requests, notice, camReturned, released>>
       ELSE /\ facingMode' = IF facingMode = "environment" THEN "user" ELSE "environment"
            /\ startCamera
    /\ UNCHANGED <<videoElement, acquired, captures, camPc, windowCurrentImageFile,
                   previewShown>>
    /\ UNCHANGED camFrame

\* cleanup() is called: the camera is stopped; the handlers it removes were
\* never stored, so every button goes on working
Cleanup ==
    /\ camPc = "idle"
    /\ stopCamera
    /\ UNCHANGED <<videoElement, facingMode, acquired, requests, captures, camPc,
                   camReturned, notice, windowCurrentImageFile, previewShown>>
    /\ released' = TRUE
    /\ UNCHANGED camFrame

InitCamera ==
    /\ NormIdle
    /\ HistInit
    /\ AiInit
    /\ AppInit
    /\ mediaDevices \in BOOLEAN
    /\ CamConstructed

NextCamera ==
    \/ SetUpCamera
    \/ StartCamera
    \/ DeviceGrants
    \/ DeviceRejects
    \/ StopCamera
    \/ CapturePhoto
    \/ BlobReady
    \/ BlobFails
    \/ CaptureStops
    \/ SwitchCamera
    \/ Cleanup

SpecCamera == InitCamera /\ [][NextCamera]_vars

\* the same with the rest of a started callback bound to run
LiveCamera == SpecCamera /\ WF_vars(CaptureStops)

\* the page in use: files selected or dropped, the image analysed and cleared,
\* one identifyPlant call in flight at a time
MaxAppSaves == 1

\* files the user selects or drops: accepted ones, one of exactly 10 MB, one a
\* byte larger, and files that are no accepted image
UploadFiles ==
    {[type |-> "image/jpeg", content |-> "/9j/4AAQ", size |-> 2048],
     [type |-> "image/png", content |-> "iVBORw0KGgo=", size |-> 10 * 1024 * 1024],
     [type |-> "image/webp", content |-> "UklGRg==", size |-> 10 * 1024 * 1024 + 1],
     [type |-> "IMAGE/GIF", content |-> "R0lGODlh", size |-> 512],
     [type |-> "image/svg+xml", content |-> "PHN2Zz4=", size |-> 300],
     [type |-> "application/pdf", content |-> "JVBERi0=", size |-> 4096],
     [type |-> "", content |-> "AAAA", size |-> 16]}

\* what the endpoint answers the page with: a reply that is the JSON asked
\* for, one whose tips are a text instead of a list, or a body with no choices
AppBodies ==
    {BodyWith(MessageWith(JStr(<<LBrace>> \o AloeMembers \o <<RBrace>>))),
     BodyWith(MessageWith(JStr(<<LBrace>> \o AloeMembers
                                  \o <<Member("tips", Words(<<"Water", "weekly">>), 23), RBrace>>))),
     JObj([error |-> Str("overloaded")])}

AppBodyArrives == \E data \in AppBodies : BodyArrivesWith(data, clock)

\* a file input changes, or files are dropped on the upload area
SelectFile ==
    /\ \E file \in UploadFiles : handleFileSelection(file)
    /\ UNCHANGED <<isIdentifying, normVars, aiVars, camVars, histQuiet, panelVars>>

\* analyzeCurrentImage up to its await: refused without an image or while
\* identifying, else the loading state is shown and identifyPlant is called
Analyze ==
    /\ LET refusal == AnalyzeRefusal(currentImageFile # NoFile \/ windowCurrentImageFile # NoFile,
                                     isIdentifying)
       IN  IF refusal # ""
           THEN /\ showNotification(refusal, "error")
                /\ UNCHANGED <<isIdentifying, previewShown, panelVars, aiVars>>
           ELSE /\ aiPc = "idle"
                /\ Len(log) < MaxAppSaves
                /\ isIdentifying' = TRUE
                /\ loadingShown' = TRUE
                /\ previewShown' = FALSE
                /\ resultsShown' = FALSE
                /\ aiFile' = IF currentImageFile # NoFile THEN currentImageFile
                             ELSE windowCurrentImageFile
                /\ aiPc' = "reading"
                /\ UNCHANGED <<notice, aiBase64, aiTimer, aiResponse, aiData, aiResult,
                               aiCause>>
    /\ UNCHANGED <<currentImageFile, windowCurrentImageFile, uploadShown, normVars, camVars,
                   histQuiet>>

\* an analysis that saves whatever identifyPlant returned
ReachesSaveAlways(result) == TRUE

\* the call of saveToHistory is reached: the envelope has a truthy success and
\* displayResults returned without throwing
ReachesSave(result) == Succeeded(result) /\ ~displayResultsThrows(result)

\* analyzeCurrentImage after its await: a success is displayed, saved and
\* announced; a failure, or a display that throws, is reported.  The locals
\* of the call that ended are gone
AnalyzeResolves ==
    /\ aiPc = "done"
    /\ aiPc' = "idle"
    /\ aiFile' = NoFile
    /\ aiBase64' = JUndefined
    /\ aiTimer' = "unset"
    /\ aiResponse' = NoResponse
    /\ aiData' = JUndefined
    /\ aiResult' = NotRun
    /\ aiCause' = "none"
    /\ isIdentifying' = FALSE
    /\ IF ReachesSave(aiResult)
       THEN /\ loadingShown' = FALSE
            /\ resultsShown' = TRUE
            /\ \E random \in RandomDraws, writeOk \in BOOLEAN :
                    saveToHistory(aiResult, clock, random, writeOk)
            /\ showNotification("Plant identified successfully!", "success")
            /\ UNCHANGED <<previewShown, tabs>>
       ELSE IF ~Succeeded(aiResult)
       THEN /\ hideLoadingState
            /\ showNotification("result.error", "error")
            /\ resultsShown' = (resultsShown \/ Truthy(Prop(aiResult, "fallback")))
            /\ UNCHANGED histQuiet
       ELSE /\ hideLoadingState
            /\ showNotification("Failed to analyze plant. Please try again.", "error")
            /\ UNCHANGED <<resultsShown, histQuiet>>
    /\ UNCHANGED <<currentImageFile, windowCurrentImageFile, uploadShown, normVars, camVars>>

\* clearCurrentImage()
ClearImage ==
    /\ currentImageFile' = NoFile
    /\ windowCurrentImageFile' = NoFile
    /\ isIdentifying' = FALSE
    /\ previewShown' = FALSE
    /\ resultsShown' = FALSE
    /\ loadingShown' = FALSE
    /\ uploadShown' = TRUE
    /\ UNCHANGED <<notice, normVars, aiVars, camVars, histQuiet>>

InitApp == InitIdentify

NextApp ==
    \/ SelectFile
    \/ Analyze
    \/ ClearImage
    \/ FileLoads
    \/ FileFails
    \/ FetchResponds
    \/ FetchFails
    \/ TimerFires
    \/ AppBodyArrives
    \/ BodyFails
    \/ AnalyzeResolves

SpecApp == InitApp /\ [][NextApp]_vars

\* the same with the rest of analyzeCurrentImage bound to run once
\* identifyPlant has resolved
LiveApp == SpecApp /\ WF_vars(AnalyzeResolves)

\* the page open in several tabs of one browser.  Every tab has its own
\* HistoryService, grid and notification; all of them share localStorage.  A
\* handler runs without interruption inside its tab, but the tabs run side by
\* side and nothing orders one tab's getItem and setItem against another
\* tab's: pc is "idle", or "save" or "delete" for a handler that has read the
\* key and not yet written it.
MaxTabSaves == 2
MaxTabRemovals == 1

\* the list a tab's handler changes and writes back, taken from the key again
\* at the time of the write
TabBaseFresh(t) == getHistory

\* the list a tab's handler changes and writes back: const history =
\* this.getHistory(), read when the handler started
TabBase(t) == tabs[t].history

\* saveToHistory(result) in tab t up to the read of the key
TabSaveReads(t) ==
    /\ tabs[t].pc = "idle"
    /\ Len(log) + Cardinality({u \in TabIds : tabs[u].pc = "save"}) < MaxTabSaves
    /\ \E result \in {Identified(AloeReply), Identified(MonsteraReply)} :
            tabs' = [tabs EXCEPT ![t] = [@ EXCEPT !.pc = "save", !.history = getHistory,
                                                  !.arg = result]]
    /\ UNCHANGED <<histVars, normVars, aiVars, camVars, appVars, uiVars, panelVars>>

\* saveToHistory(result) in tab t from the item it builds to its return; the
\* clock has moved on since the last save
TabSaveWrites(t) ==
    /\ tabs[t].pc = "save"
    /\ \E random \in RandomDraws :
        LET item == historyItem(tabs[t].arg, clock + 1, random)
            history == LimitSize(unshift(TabBase(t), item))
        IN  /\ storage' = JSONstringify(JArr(history), 0)
            /\ log' = Append(log, Serializable(item))
            /\ clock' = clock + 1
            /\ tabs' = [tabs EXCEPT ![t] = [IdleTab EXCEPT !.grid = HistoryOf(storage'),
                                                           !.notice = tabs[t].notice]]
    /\ UNCHANGED <<gridShown, gridItems, searchInput, exported, notice, saved, removals>>
    /\ UNCHANGED <<normVars, aiVars, camVars, appVars, uiVars, panelVars>>

\* deleteItem(itemId) in tab t, the dialog confirmed, up to the read of the key
TabDeleteReads(t) ==
    /\ tabs[t].pc = "idle"
    /\ removals + Cardinality({u \in TabIds : tabs[u].pc = "delete"}) < MaxTabRemovals
    /\ \E itemId \in StoredIds :
            tabs' = [tabs EXCEPT ![t] = [@ EXCEPT !.pc = "delete", !.history = getHistory,
                                                  !.arg = itemId]]
    /\ UNCHANGED <<histVars, normVars, aiVars, camVars, appVars, uiVars, panelVars>>

\* deleteItem(itemId) in tab t from the filter to its end
TabDeleteWrites(t) ==
    /\ tabs[t].pc = "delete"
    /\ storage' = JSONstringify(
            JArr(SelectSeq(TabBase(t), LAMBDA item : KeepsItem(item, tabs[t].arg))), 0)
    /\ removals' = removals + 1
    /\ tabs' = [tabs EXCEPT ![t] = [IdleTab EXCEPT !.grid = HistoryOf(storage'),
                                                   !.notice = "Plant identification deleted"]]
    /\ UNCHANGED <<gridShown, gridItems, searchInput, exported, notice, saved, clock, log>>
    /\ UNCHANGED <<normVars, aiVars, camVars, appVars, uiVars, panelVars>>

SaveStarts == \E t \in TabIds : TabSaveReads(t)
SaveEnds == \E t \in TabIds : TabSaveWrites(t)
DeleteStarts == \E t \in TabIds : TabDeleteReads(t)
DeleteEnds == \E t \in TabIds : TabDeleteWrites(t)

InitTabs == NormIdle /\ HistInit /\ AiInit /\ CamInit /\ AppInit
NextTabs == SaveStarts \/ SaveEnds \/ DeleteStarts \/ DeleteEnds
SpecTabs == InitTabs /\ [][NextTabs]_vars

\* the page with both ways of providing an image: files chosen or dropped and
\* photos captured, analyses started and images cleared.  The controller's
\* handlers wait for a toBlob callback under way to reach its end.
PageSelectFile == camPc = "idle" /\ SelectFile
PageAnalyze == camPc = "idle" /\ Analyze
PageClearImage == camPc = "idle" /\ ClearImage

InitProvide == InitCamera

NextProvide ==
    \/ SetUpCamera
    \/ StartCamera
    \/ DeviceGrants
    \/ CapturePhoto
    \/ BlobReady
    \/ CaptureStops
    \/ PageSelectFile
    \/ PageAnalyze
    \/ PageClearImage

SpecProvide == InitProvide /\ [][NextProvide]_vars

(***************************************************************************)
(* Claims about normalization                                              *)
(***************************************************************************)
NestedFields ==
    [ careInstructions |-> {"light", "water", "soil", "temperature", "humidity",
                            "fertilizer", "propagation", "commonIssues"},
      characteristics |-> {"size", "growth", "blooming", "toxicity", "difficulty"},
      seasonalCare |-> {"spring", "summer", "fall", "winter"} ]

ScalarFields == {"plantName", "scientificName", "family", "confidence", "description", "tips"}

IsPopulated(x) == x.t \notin {"null", "undefined"}

\* C1: every record returned by normalization has each documented field present
\* and neither null nor undefined, and a confidence between 0 and 100.
C1_EveryFieldPopulated ==
    enhanced.t = "obj" =>
        /\ \A k \in ScalarFields : IsPopulated(Prop(enhanced, k))
        /\ \A k \in DOMAIN NestedFields :
              \A s \in NestedFields[k] : IsPopulated(Prop(Prop(enhanced, k), s))
        /\ Prop(enhanced, "confidence").t = "num"
        /\ Prop(enhanced, "confidence").v \in 0..100

\* C2: an integer confidence c of the reply comes out as c when 0 <= c <= 100,
\* as 0 when c < 0 and as 100 when c > 100; in particular 0 stays 0.
C2_ConfidenceClamped ==
    (enhanced.t = "obj" /\ Prop(reply, "confidence").t = "num") =>
        LET c == Prop(reply, "confidence").v
        IN  Prop(enhanced, "confidence") =
                JNum(IF c < 0 THEN 0 ELSE IF c > 100 THEN 100 ELSE c)

\* what the field-by-field merge leaves under top-level key k
MergeOutcome(k) ==
    LET given == Prop(reply, k)
        dflt == IF k \in DOMAIN defaults THEN defaults[k] ELSE JUndefined
    IN  CASE given.t \in {"null", "undefined"} -> Prop(enhanced, k) = dflt
          [] given.t = "obj" ->
                /\ Prop(enhanced, k).t = "obj"
                /\ DOMAIN Prop(enhanced, k).v = DOMAIN OwnProps(dflt) \cup DOMAIN given.v
                /\ \A s \in DOMAIN Prop(enhanced, k).v :
                      Prop(enhanced, k).v[s] =
                          IF s \in DOMAIN given.v THEN given.v[s] ELSE OwnProps(dflt)[s]
          [] OTHER -> Prop(enhanced, k) = given

\* C3 as stated: the merge outcome holds of every top-level key.
C3_MergeEveryKey ==
    enhanced.t = "obj" =>
        \A k \in DOMAIN defaults \cup DOMAIN OwnProps(reply) : MergeOutcome(k)

\* C3 amended: the merge outcome holds of every top-level key but confidence,
\* which the clamp rewrites after the merge.
C3_MergeKeysButConfidence ==
    enhanced.t = "obj" =>
        /\ DOMAIN enhanced.v = DOMAIN defaults \cup GivenKeys(reply)
        /\ \A k \in (DOMAIN defaults \cup DOMAIN OwnProps(reply)) \ {"confidence"} :
              MergeOutcome(k)

C3_Witness ==
    /\ enhanced.t = "obj"
    /\ Prop(reply, "plantName").t = "null"
    /\ Prop(reply, "careInstructions").t = "obj"
    /\ Prop(Prop(enhanced, "careInstructions"), "light") = Str("Full sun")
    /\ Prop(Prop(enhanced, "careInstructions"), "water") = Str("Water when top soil feels dry")

(***************************************************************************)
(* Claims about the history store                                          *)
(***************************************************************************)
\* C4: after more than 100 successful saves from an empty history and no delete,
\* the stored list is the 100 most recently saved items, the last saved first.
C4_KeepsNewestHundred ==
    (removals = 0 /\ Len(log) > maxHistoryItems) =>
        /\ Len(getHistory) = maxHistoryItems
        /\ \A i \in 1..maxHistoryItems : getHistory[i] = log[Len(log) + 1 - i]

C4_Witness ==
    /\ removals = 0
    /\ Len(log) = maxHistoryItems + 2
    /\ getHistory[maxHistoryItems] = log[3]

\* the positions at which an item was saved
SavedAt(item) == {j \in 1..Len(log) : log[j] = item}

\* C5: the stored list never holds more than 100 items and is newest-first: of
\* two stored items the one saved later comes first.
C5_BoundedNewestFirst ==
    /\ Len(getHistory) <= maxHistoryItems
    /\ \A i \in 1..Len(getHistory) : SavedAt(getHistory[i]) # {}
    /\ \A i \in 1..(Len(getHistory) - 1) :
            \E later \in SavedAt(getHistory[i]), earlier \in SavedAt(getHistory[i + 1]) :
                later > earlier

C5_Witness ==
    /\ removals > 0
    /\ Len(log) > maxHistoryItems
    /\ Len(getHistory) = maxHistoryItems

\* item has the searched text in one of its four fields, case ignored
HasText(item, term) ==
    \E f \in {"plantName", "scientificName", "family", "description"} :
        /\ Prop(item, f).t = "str"
        /\ includes(toLowerCase(Prop(item, f).v), toLowerCase(term))

TextFieldsAreStrings(item) ==
    \A f \in {"plantName", "scientificName", "family", "description"} :
        Prop(item, f).t = "str"

\* C6 as stated, for stored items whose four fields are strings: filterHistory(term)
\* displays the stored items that have the term in one of the four fields, in
\* stored order, and the whole list when the term is empty.
C6_FilterShowsMatches ==
    [][\A term \in SearchTerms :
          (filterHistory(term) /\ \A i \in 1..Len(getHistory) : TextFieldsAreStrings(getHistory[i])) =>
              Displayed' = IF term = <<>> THEN getHistory
                           ELSE SelectSeq(getHistory, LAMBDA item : HasText(item, term))]_vars

\* C6 amended: the whole list is displayed when the term is empty or blank;
\* otherwise the stored items that have the term, in stored order, when the four
\* fields of every stored item are strings; with a field that is no string the
\* call either displays those items or throws and leaves the display as it was.
C6_FilterShowsMatchesUnlessBlank ==
    [][\A term \in SearchTerms :
          filterHistory(term) =>
              IF \A i \in 1..Len(term) : term[i] = Blank
              THEN Displayed' = getHistory
              ELSE IF \A i \in 1..Len(getHistory) : TextFieldsAreStrings(getHistory[i])
              THEN Displayed' = SelectSeq(getHistory, LAMBDA item : HasText(item, term))
              ELSE \/ Displayed' = SelectSeq(getHistory, LAMBDA item : HasText(item, term))
                   \/ <<gridShown, gridItems>>' = <<gridShown, gridItems>>]_vars

C6_Witness ==
    /\ searchInput = <<"ARACEAE">>
    /\ Len(getHistory) = 2
    /\ TextFieldsAreStrings(getHistory[1]) /\ TextFieldsAreStrings(getHistory[2])
    /\ gridShown
    /\ gridItems = <<getHistory[2]>>

RemoveAt(s, i) == SubSeq(s, 1, i - 1) \o SubSeq(s, i + 1, Len(s))

PossibleIds ==
    {generateId(now, random) : now \in 0..MaxClock, random \in RandomDraws} \cup {AbsentId}

\* C7: a confirmed deleteItem(id) removes exactly one item, the one with that id,
\* and keeps the others in order; with an id no stored item has, the list stays
\* as it was.
C7_DeleteRemovesOne ==
    [][\A itemId \in PossibleIds :
          deleteItem(itemId, TRUE) =>
              IF itemId \in StoredIds
              THEN \E i \in 1..Len(getHistory) :
                      /\ Prop(getHistory[i], "id") = itemId
                      /\ HistoryOf(storage') = RemoveAt(getHistory, i)
              ELSE HistoryOf(storage') = getHistory]_vars

\* C8: the text exportHistory hands to the download parses to the array
\* getHistory returns.
C8_ExportRoundTrip ==
    [][exported' # exported => JSONparse(exported') = JArr(HistoryOf(storage'))]_vars

C8_Witness ==
    /\ exported # NoItem
    /\ exported # storage
    /\ Len(getHistory) = 2
    /\ JSONparse(exported) = JArr(getHistory)

(***************************************************************************)
(* Claims about identifyPlant                                              *)
(***************************************************************************)
Finished == aiPc = "done"
Failed == Finished /\ aiCause # "success"
IsNonEmptyString(x) == x.t = "str" /\ x.v # <<>> /\ \E i \in 1..Len(x.v) : x.v[i] # ""
Has(x, k) == k \in DOMAIN OwnProps(x)

\* C9: identifyPlant never throws; when the file cannot be read, the fetch
\* fails, times out or answers with a status outside 200..299, or the body is
\* unusable, it resolves to { success: false, error, fallback } with error a
\* non-empty string and fallback the canned fallback record, and for a status
\* outside 200..299 error is "API request failed: <status> <statusText>".
C9_FailureEnvelope ==
    /\ aiResult # Thrown
    /\ Finished => aiResult.t = "obj"
    /\ Failed =>
        /\ Prop(aiResult, "success") = JBool(FALSE)
        /\ IsNonEmptyString(Prop(aiResult, "error"))
        /\ Prop(aiResult, "fallback") = getFallbackResponse
    /\ (Finished /\ aiCause = "http") =>
        Prop(aiResult, "error") =
            JStr(<<"API request failed: ", ToString(aiResponse.status), " ",
                   aiResponse.statusText>>)

C9_Witness ==
    /\ Finished
    /\ aiCause = "http"
    /\ aiResponse.status = 500
    /\ Prop(aiResult, "success") = JBool(FALSE)

ExactlyOneRecord(envelope) == Has(envelope, "data") # Has(envelope, "fallback")
SubmittedImage == JStr(<<"data:", aiFile.type, ";base64", ",", aiFile.content>>)

\* C10: every envelope carries a timestamp, the imageData of the submitted
\* image, success, and exactly one of data and fallback.
C10_EnvelopeFields ==
    Finished =>
        /\ Has(aiResult, "success")
        /\ Has(aiResult, "timestamp")
        /\ Prop(aiResult, "imageData") = SubmittedImage
        /\ ExactlyOneRecord(aiResult)

\* C10 amended: every envelope carries success and exactly one of data (on
\* success) and fallback (on failure); a success envelope carries a timestamp
\* and the imageData of the submitted image, a failure envelope carries an
\* error and neither a timestamp nor imageData.
C10_EnvelopeFieldsBySuccess ==
    Finished =>
        /\ Prop(aiResult, "success") = JBool(aiCause = "success")
        /\ ExactlyOneRecord(aiResult)
        /\ Has(aiResult, "data") <=> aiCause = "success"
        /\ aiCause = "success" =>
            /\ DOMAIN OwnProps(aiResult) = {"success", "data", "timestamp", "imageData"}
            /\ Prop(aiResult, "timestamp").t = "str"
            /\ Prop(aiResult, "imageData") = SubmittedImage
        /\ aiCause # "success" =>
            DOMAIN OwnProps(aiResult) = {"success", "error", "fallback"}

C10_Witness ==
    /\ Finished
    /\ aiCause = "success"
    /\ aiFile.type = "image/png"
    /\ Prop(aiResult, "imageData") = SubmittedImage

TimeoutMessage == Str("Request timeout - plant analysis took too long")

\* C11: a request still unanswered when the timer fires resolves to the failure
\* envelope with the request-timeout message, and every call whose request was
\* sent eventually resolves, whatever the endpoint does.
C11_SentRequestResolves ==
    /\ [](aiCause = "timeout" =>
            /\ Prop(aiResult, "success") = JBool(FALSE)
            /\ Prop(aiResult, "error") = TimeoutMessage)
    /\ (aiPc = "fetching") ~> (aiPc = "done")

\* the content of the reply read from the body
ReplyContent == Prop(Prop(Prop(Prop(aiData, "choices"), "0"), "message"), "content")
IsObjectText(text) == Len(text) >= 2 /\ text[1].k = "{" /\ ParsesAsJson(text)
\* the ways to read the content as prefix, JSON object text, suffix
Embeddings ==
    IF ReplyContent.t # "str" THEN {}
    ELSE {ij \in (1..Len(ReplyContent.v)) \X (1..Len(ReplyContent.v)) :
            ij[1] < ij[2] /\ IsObjectText(SubSeq(ReplyContent.v, ij[1], ij[2]))}
NormalizedFieldsOf(ij) ==
    validateAndEnhanceResponse(JSONparseText(SubSeq(ReplyContent.v, ij[1], ij[2])))
NoBraceAround(ij) ==
    /\ \A n \in 1..(ij[1] - 1) : ReplyContent.v[n].k # "{"
    /\ \A n \in (ij[2] + 1)..Len(ReplyContent.v) : ReplyContent.v[n].k # "}"

EntryThenPrevious ==
    LET entry == Serializable(historyItem(CapResult, clock + 1, 0))
        all == <<entry>> \o getHistory
    IN  [i \in 1..(IF Len(all) > 100 THEN 100 ELSE Len(all)) |-> all[i]]

\* C18: saveToHistory returns false only when the write fails, and then the
\* stored list is what it was and the entry is not written later; otherwise it
\* returns true and the stored list is the new entry followed by the previous
\* entries, cut to 100.
C18_SaveOutcome ==
    /\ [][CapSaveRefused =>
             /\ saved' = "false"
             /\ storage' = storage
             /\ log' = log]_vars
    /\ [][CapSave =>
             /\ saved' = "true"
             /\ HistoryOf(storage') = EntryThenPrevious]_vars
    /\ [][saved' = "false" => CapSaveRefused]_vars

\* a refused save with the list full, after a save that cut it
C18_Witness ==
    /\ saved = "false"
    /\ Len(getHistory) = maxHistoryItems
    /\ Len(log) > maxHistoryItems
    /\ clock > Len(log)

\* C19: a save whose write fails shows an error notification.
C19_StorageFailureReported ==
    [][(Save /\ saved' = "false") => notice'.type = "error"]_vars

(***************************************************************************)
(* Claims about the camera                                                 *)
(***************************************************************************)

CameraNotActive == [message |-> "Camera not active", type |-> "error"]

\* C13: capturePhoto called while the camera is not active returns null,
\* leaves the current image file as it was, shows the "Camera not active"
\* error, asks for no encoding and leaves stream and isActive unchanged.
C13_InactiveCaptureRefused ==
    [][(CapturePhoto /\ ~isActive) =>
          /\ camReturned' = "null"
          /\ windowCurrentImageFile' = windowCurrentImageFile
          /\ currentImageFile' = currentImageFile
          /\ captures' = captures
          /\ notice' = CameraNotActive
          /\ stream' = stream
          /\ isActive' = isActive
          /\ live' = live]_vars

\* a refused capture after a photo was handed over and the camera stopped
C13_Witness ==
    /\ camReturned = "null"
    /\ notice = CameraNotActive
    /\ ~isActive
    /\ windowCurrentImageFile = CapturedFile

\* C14: when the encoding of a captured frame yields a blob, the file made
\* of it is first handed over as the current image file, with the stream
\* still as it was; then the camera is stopped: isActive false, stream null,
\* the tracks of the stream held stopped. The stop always follows.
C14_HandOverThenStop ==
    /\ [][BlobReady =>
             /\ windowCurrentImageFile' = CapturedFile
             /\ previewShown'
             /\ stream' = stream /\ isActive' = isActive /\ live' = live]_vars
    /\ [][(camPc = "handed" /\ camPc' = "idle") =>
             /\ windowCurrentImageFile = CapturedFile
             /\ windowCurrentImageFile' = CapturedFile
             /\ ~isActive'
             /\ stream' = NoStream
             /\ stream \notin live']_vars
    /\ (camPc = "handed") ~>
          (camPc = "idle" /\ ~isActive /\ stream = NoStream
              /\ windowCurrentImageFile = CapturedFile)

\* a photo handed over and the camera that took it stopped, no track live
C14_Witness ==
    /\ camPc = "idle"
    /\ windowCurrentImageFile = CapturedFile
    /\ previewShown
    /\ acquired > 0
    /\ live = {}
    /\ stream = NoStream
    /\ ~isActive
    /\ notice.type = "success"

StoppedOnce == StopFields(CamState, videoElement)

\* C15: stopCamera stops every track of the stream held, sets stream to null
\* and isActive to false; a second stop changes nothing more, and a stop
\* with no stream held leaves stream, isActive and the live tracks alone.
C15_StopIdempotent ==
    /\ [](/\ StoppedOnce.stream = NoStream
          /\ ~StoppedOnce.isActive
          /\ StoppedOnce.live = live \ {stream}
          /\ StopFields(StoppedOnce, videoElement) = StoppedOnce
          /\ stream = NoStream =>
                /\ StoppedOnce.stream = stream
                /\ StoppedOnce.isActive = isActive
                /\ StoppedOnce.live = live)
    /\ [][StopCamera =>
             /\ stream' = NoStream
             /\ ~isActive'
             /\ stream \notin live'
             /\ live' = live \ {stream}]_vars

\* a started camera stopped by a call of stopCamera, no photo taken
C15_Witness ==
    /\ videoElement
    /\ acquired > 0
    /\ live = {}
    /\ stream = NoStream
    /\ ~isActive
    /\ camReturned = "undefined"
    /\ notice = NoNotice
    /\ windowCurrentImageFile = NoFile
    /\ captures = 0

\* C16: every acquired stream whose tracks have not been stopped is the one
\* the stream field refers to, so at most one stream is live.
C16_SingleStream == live \subseteq {stream}

ClassifiedErrors ==
    {"NotAllowedError", "NotFoundError", "NotReadableError", "OverconstrainedError",
     "NotSupportedError", "SecurityError"}

\* C17: when the platform rejects the device request of startCamera, the
\* call returns false, the camera ends inactive with no stream held, and the
\* error shown is the message of the error's class, the messages of the six
\* classes being pairwise distinct.
C17_RejectionClassified ==
    [][DeviceRejects =>
          /\ camReturned' = "false"
          /\ notice'.type = "error"
          /\ \E error \in CameraErrors :
                notice'.message = CameraErrorMessage(error.name, error.message)
          /\ \A m, n \in ClassifiedErrors :
                m # n => CameraErrorMessage(m, "") # CameraErrorMessage(n, "")
          /\ ~isActive'
          /\ stream' = NoStream]_vars

(***************************************************************************)
(* Claims about the page                                                   *)
(***************************************************************************)
\* a file of a type that is no accepted image type, or of more than 10 MB
Rejected(file) ==
    \/ TypeLowerCase(file.type) \notin
            {"image/jpeg", "image/jpg", "image/png", "image/gif", "image/webp"}
    \/ file.size > 10485760

\* C20: selecting or dropping a file of a type that is not accepted, or of
\* more than 10 MB, shows an error notification and leaves the current image
\* file unchanged; no identifyPlant call is ever made for such a file.
C20_RejectedNeverSent ==
    /\ [][\A file \in UploadFiles :
             (Rejected(file) /\ handleFileSelection(file) /\ UNCHANGED <<aiVars, isIdentifying>>)
                => /\ notice'.type = "error"
                   /\ currentImageFile' = currentImageFile
                   /\ windowCurrentImageFile' = windowCurrentImageFile]_vars
    /\ [](aiPc # "idle" => (aiFile \in UploadFiles /\ ~Rejected(aiFile)))
    /\ [](currentImageFile # NoFile => ~Rejected(currentImageFile))

\* an oversized file refused while the request for the image chosen before,
\* of exactly 10 MB, is on its way
C20_Witness ==
    /\ notice.message = "Image file is too large. Please select a file smaller than 10MB."
    /\ notice.type = "error"
    /\ currentImageFile.size = 10485760
    /\ aiPc = "fetching"
    /\ aiFile = currentImageFile

\* C21: analyzeCurrentImage invoked while isIdentifying is true sends no
\* request, shows "Analysis already in progress" and changes neither the
\* flag, the current image nor the history.
C21_BusyAnalyzeRefused ==
    [][(Analyze /\ isIdentifying) =>
          /\ notice' = [message |-> "Analysis already in progress", type |-> "error"]
          /\ UNCHANGED aiVars
          /\ UNCHANGED <<isIdentifying, currentImageFile, windowCurrentImageFile>>
          /\ UNCHANGED <<storage, gridItems, log, saved, panelVars>>]_vars

\* the refusal shown while the request of the analysis under way is out
C21_Witness ==
    /\ notice = [message |-> "Analysis already in progress", type |-> "error"]
    /\ isIdentifying
    /\ aiPc = "fetching"
    /\ loadingShown

\* an analysis that ended in a failure envelope or in a result that cannot
\* be rendered
AnalysisFailed ==
    /\ aiPc = "done"
    /\ (~Succeeded(aiResult) \/ displayResultsThrows(aiResult))

\* an error on display over a page ready for the next analysis
ReportedAndReusable ==
    /\ notice.type = "error"
    /\ ~loadingShown
    /\ ~isIdentifying
    /\ aiPc = "idle"

\* C22: every failure of an analysis, a failure envelope or an exception
\* while rendering, ends with an error notification shown, the loading
\* indicator hidden and isIdentifying false.
C22_FailureEndsReusable ==
    /\ [][(AnalysisFailed /\ AnalyzeResolves) =>
             (ReportedAndReusable' /\ previewShown')]_vars
    /\ AnalysisFailed ~> ReportedAndReusable

\* a result that could not be rendered, reported, with an image still chosen
C22_Witness ==
    /\ ReportedAndReusable
    /\ notice.message = "Failed to analyze plant. Please try again."
    /\ currentImageFile # NoFile
    /\ previewShown

(***************************************************************************)
(* Claims about the statistics                                             *)
(***************************************************************************)
\* the highest number of items one family has in the stored list
HighestFamilyCount ==
    CHOOSE n \in 0..Len(getHistory) :
        /\ \A i \in DOMAIN getHistory : familyCounts(getHistory)[Families(getHistory)[i]] <= n
        /\ \E i \in DOMAIN getHistory : familyCounts(getHistory)[Families(getHistory)[i]] = n

\* the family with the highest count that comes first in the stored list
FirstModalFamily ==
    LET modal == {i \in DOMAIN getHistory :
                    familyCounts(getHistory)[Families(getHistory)[i]] = HighestFamilyCount}
    IN  Families(getHistory)[CHOOSE i \in modal : \A j \in modal : i <= j]

\* C23: whenever the store holds items, getHistoryStats reports as
\* mostCommonFamily a family with the highest number of items, and among the
\* families that tie for it the one met first in the stored list.
C23_ModalFamilyFirstOnTie ==
    Len(getHistory) > 0 =>
        /\ familyCounts(getHistory)[mostCommonFamily] = HighestFamilyCount
        /\ mostCommonFamily = FirstModalFamily

(***************************************************************************)
(* Claims about the page and the history store                             *)
(***************************************************************************)
\* C24: the stored history changes only in the step that resolves an analysis
\* whose envelope has success = true, and that step puts exactly one more
\* entry, built from that envelope, at the head of the list; resolving a
\* failure envelope leaves the store as it is.
C24_EntriesOnlyFromSuccess ==
    /\ [][(storage' # storage \/ log' # log) =>
            /\ aiPc = "done" /\ Prop(aiResult, "success") = JBool(TRUE) /\ aiPc' = "idle"
            /\ saved' = "true"
            /\ Len(log') = Len(log) + 1
            /\ HistoryOf(storage') = <<log'[Len(log')]>> \o getHistory]_vars
    /\ [][(aiPc = "done" /\ Prop(aiResult, "success") # JBool(TRUE) /\ AnalyzeResolves) =>
            UNCHANGED <<storage, log, saved>>]_vars

C24_Witness ==
    /\ Len(getHistory) = 1
    /\ saved = "true"
    /\ notice.message = "Plant identified successfully!"
    /\ resultsShown

(***************************************************************************)
(* Claims about several tabs                                               *)
(***************************************************************************)
Holds(history, item) == \E i \in DOMAIN history : history[i] = item

\* C25: a tab writes back the list it read when its handler started with its
\* own change applied, so every entry another tab stored on the key since
\* that read is gone after the write: the read-modify-write of the key is not
\* atomic across tabs.
C25_WriteDropsLaterEntries ==
    [][\A t \in TabIds : (TabSaveWrites(t) \/ TabDeleteWrites(t)) =>
            \A i \in DOMAIN getHistory :
                ~Holds(tabs[t].history, getHistory[i]) =>
                    ~Holds(HistoryOf(storage'), getHistory[i])]_vars

\* a lost update: both tabs have saved, nothing was deleted, the list is far
\* from its capacity, and the key holds one of the two entries only
C25_Witness ==
    /\ \A t \in TabIds : tabs[t].pc = "idle"
    /\ Len(log) = 2
    /\ log[1] # log[2]
    /\ removals = 0
    /\ Len(log) <= maxHistoryItems
    /\ Len(getHistory) = 1
    /\ ~Holds(getHistory, log[1])
    /\ Holds(getHistory, log[2])

(***************************************************************************)
(* Claims about the page's controller                                      *)
(***************************************************************************)
\* an identifyPlant call started by analyzeCurrentImage has not been resolved
Outstanding == aiPc # "idle"

\* C26: in every state of the page, isIdentifying is true exactly while an
\* identification request started by analyzeCurrentImage is outstanding.
C26_FlagMatchesOutstanding == isIdentifying <=> Outstanding
\* the image provided last since the last clear: processImageFile and
\* processCapturedImage both assign window.currentImageFile and
\* clearCurrentImage resets it
LatestProvided == windowCurrentImageFile

\* C27: every analysis that calls identifyPlant submits the image provided
\* last (accepted by handleFileSelection or produced by capturePhoto) since
\* the last clear.
C27_LatestImageSubmitted ==
    [][(aiPc = "idle" /\ aiPc' = "reading") => aiFile' = LatestProvided]_vars
\* an identifyPlant call sent before clearCurrentImage reset the controller:
\* while a call is outstanding only a clear puts the flag down
ClearedInFlight == Outstanding /\ ~isIdentifying

\* C28: when the response of a request sent before a clear arrives, it is
\* neither rendered in the results area nor saved to the history.
C28_ClearedResponseDropped ==
    [][(ClearedInFlight /\ AnalyzeResolves) =>
            (~resultsShown' /\ storage' = storage /\ log' = log)]_vars
(***************************************************************************)
(* Claims about the camera's fields                                        *)
(***************************************************************************)
\* C29: in every reachable state of the camera service, whatever the order of
\* startCamera, stopCamera, capturePhoto, switchCamera and cleanup and of the
\* platform's answers, isActive = true implies that a stream is held.
C29_ActiveHoldsStream == isActive => stream # NoStream

\* the camera active on a stream while another start is waiting for the device
C29_Witness == isActive /\ stream # NoStream /\ requests > 0
\* C30: once stopCamera or cleanup has been called and as long as startCamera
\* has not been called again, no stream is held and isActive is false, also
\* when a startCamera call made before the stop is still waiting for the
\* device.
C30_StaysReleased == released => (stream = NoStream /\ ~isActive)

====
